---- MODULE Spec2Model ----
(***************************************************************************)
(* The Android Vulkan GPU-usage backend (timestamp instrumentation of     *)
(* queue submissions): frame-slot ring, submission interceptor, result    *)
(* collector, backend state machine and the destroy-time lifetime guard.  *)
(* Every block the code runs under ctx->lock is one atomic step; native   *)
(* calls made outside the lock are steps of their own.                    *)
(***************************************************************************)
EXTENDS Integers, Sequences, FiniteSets, TLC

\* ------------------------------------------------------------------ bounds
\* Submit calls (v1 or v2) the application makes in one run.
MaxCalls == 2
\* Presents in one run: frame_index stays below this.
MaxSerial == 6
\* The clock stops advancing here (milliseconds).
MaxClock == 3000
\* Environment faults (failed native calls, failed or unready polls) in one run.
MaxFaults == 2
\* get_metrics calls in one run.
MaxMetricsCalls == 1

\* ------------------------------------------------------- program constants
MAX_FRAMES == 16
MAX_QUERIES_PER_FRAME == 128
FRAME_LAG == 3
kMaxPairsPerSampledFrame == 16
kFlattenHardCap == 8192
kCooldownSubmitFail == 1500
kCooldownNotReadyLong == 1000
kCooldownStaleSlot == 1000
kCooldownRecordFail == 1500
kCooldownReadError == 1500
kSuspendedProbeEvery == 250
kNotReadyLimit == 120
WINDOW == 500
\* float frame_cpu_ms = 16.0f: the CPU time on_present records for a frame. The
\* model's clock resolves cooldowns, not frame times, so every frame gets it.
frame_cpu_ms == 16
\* std::numeric_limits<uint64_t>::max(), the "no frame" serial of a slot. It is
\* written -1 (the same bit pattern read as signed): it is odd, equal to no
\* real serial, and the code compares it only with == and != before ordering.
UINT64_MAX == 0 - 1
\* VK_QUEUE_FAMILY_IGNORED
VK_QUEUE_FAMILY_IGNORED == 0 - 1
\* Granularity of the modelled steady clock (ms).
ClockStep == 1500

Slots == 0 .. (MAX_FRAMES - 1)

VkResults == {"VK_SUCCESS", "VK_ERROR_OUT_OF_DEVICE_MEMORY", "VK_ERROR_DEVICE_LOST"}

Min(a, b) == IF a < b THEN a ELSE b
Max(a, b) == IF a > b THEN a ELSE b

\* ---------------------------------------------------------------- inputs
\* A submission is the sequence of the application's command buffers; a submit
\* call passes a non-empty array of submissions.
SubmitInputs ==
    { << <<"a">> >>, << <<>> >>, << <<"a">>, <<"b">> >>, << <<>>, <<"b">> >> }

\* Queue families of the physical device: 0 is a graphics family with
\* timestamps, 1 has timestamps but no graphics bit, 2 reports
\* timestampValidBits = 0; an index of 3 is past the device's families.
QueueFamilyProperties(qfi) ==
    CASE qfi = 0 -> [timestampValidBits |-> 36, graphics |-> TRUE]
      [] qfi = 1 -> [timestampValidBits |-> 36, graphics |-> FALSE]
      [] OTHER   -> [timestampValidBits |-> 0,  graphics |-> TRUE]
qf_count == 3
QfiInputs == {0, 1, 2, 3}

\* What the driver answers when the timestamp resources are created.
InitOutcomes == {"ok", "query_pool_fail", "cmd_pool_fail", "alloc_fail"}

\* ------------------------------------------------------------ FrameResources
EmptyFrame ==
    [cmd_pool         |-> FALSE,
     query_capacity   |-> 0,
     query_used       |-> 0,
     has_queries      |-> FALSE,
     valid_pairs_mask |-> {},
     in_submit        |-> 0,
     frame_serial     |-> UINT64_MAX,
     timestamp_cmds   |-> 0,
     cb_recorded      |-> FALSE,
     valid_at         |-> {}]
\* valid_at is history, not program state: the serials under which the pairs of
\* valid_pairs_mask were reserved, as <<pair_index, serial>>.
\* cb_recorded is the state of the pool's command buffers: TRUE when one of
\* them holds a recording, FALSE when all are in the initial state.

\* disp.ResetCommandPool(device, fr.cmd_pool, 0) behind its null tests.
ResetCommandPool(fr) ==
    IF fr.cmd_pool THEN [fr EXCEPT !.cb_recorded = FALSE] ELSE fr

query_start(i) == i * MAX_QUERIES_PER_FRAME

\* ------------------------------------------------------------ state machine
android_gpu_usage_suspend_locked(c, now, cooldown) ==
    IF c.mode = "Disabled" THEN c
    ELSE IF c.mode = "Suspended"
    THEN [c EXCEPT !.suspend_until = Max(@, now + cooldown)]
    ELSE [c EXCEPT !.mode = "Suspended",
                   !.suspend_until = now + cooldown,
                   !.last_probe = 0,
                   !.notready_streak = 0,
                   !.error_streak = 0,
                   !.read_serial = c.frame_index]

\* should_sample without the mode test.
should_sample_AnyMode(c) ==
    c.ts_supported /\ c.frame_index % 2 = 0

\* should_sample that samples no frame.
should_sample_Never(c) == FALSE

\* Sampling gate: Active mode, timestamps supported, every second frame.
android_gpu_usage_should_sample(c) ==
    c.mode = "Active" /\ c.ts_supported /\ c.frame_index % 2 = 0

\* ------------------------------------------------------- resource manager
android_gpu_usage_destroy_timestamp_resources(c) ==
    [c EXCEPT
        !.frames = [i \in Slots |->
            [c.frames[i] EXCEPT
                !.timestamp_cmds = IF c.frames[i].cmd_pool THEN 0 ELSE @,
                !.cmd_pool = FALSE,
                !.cb_recorded = FALSE,
                !.query_used = 0,
                !.has_queries = FALSE,
                !.valid_pairs_mask = {},
                !.valid_at = {},
                !.frame_serial = UINT64_MAX]],
        !.query_pool = FALSE,
        !.queue_family_index = VK_QUEUE_FAMILY_IGNORED]

\* TRUE when this call of init_timestamp_resources reaches the driver.
\* A device-loss transition that also destroys the timestamp resources.
DeviceLostBlock_Frees(c) ==
    android_gpu_usage_destroy_timestamp_resources(
        [c EXCEPT !.ts_supported = FALSE, !.mode = "Disabled"])

\* What on_present does on a DeviceLost poll and finalize_submit_locked on a
\* VK_ERROR_DEVICE_LOST submit: ts_supported = false, mode = Disabled, and
\* nothing else ("disable backend (no destroy)").
DeviceLostBlock(c) ==
    [c EXCEPT !.ts_supported = FALSE, !.mode = "Disabled"]

InitReachesDriver(c, qfi) ==
    /\ c.ts_supported /\ c.mode = "Active" /\ ~c.query_pool
    /\ qfi < qf_count
    /\ QueueFamilyProperties(qfi).timestampValidBits # 0
    /\ QueueFamilyProperties(qfi).graphics

\* init_timestamp_resources leaving ts_supported set when a creation fails.
init_timestamp_resources_RetryLater(c, qfi, outcome) ==
    IF ~c.ts_supported THEN [ok |-> FALSE, c |-> c]
    ELSE IF c.mode # "Active" THEN [ok |-> FALSE, c |-> c]
    ELSE IF c.query_pool THEN [ok |-> TRUE, c |-> c]
    ELSE
      LET c1 == [c EXCEPT !.queue_family_index = qfi]
          vb == QueueFamilyProperties(qfi).timestampValidBits
      IN
      IF qfi >= qf_count
      THEN [ok |-> FALSE, c |-> [c1 EXCEPT !.ts_supported = FALSE]]
      ELSE IF vb = 0
      THEN [ok |-> FALSE, c |-> [c1 EXCEPT !.ts_supported = FALSE]]
      ELSE IF ~QueueFamilyProperties(qfi).graphics
      THEN [ok |-> FALSE, c |-> c1]
      ELSE
        LET c2 == [c1 EXCEPT !.ts_valid_bits = vb] IN
        IF outcome = "query_pool_fail"
        THEN [ok |-> FALSE,
              c |-> [c2 EXCEPT !.query_pool = FALSE]]
        ELSE IF outcome \in {"cmd_pool_fail", "alloc_fail"}
        THEN [ok |-> FALSE,
              c |-> android_gpu_usage_destroy_timestamp_resources(
                        [c2 EXCEPT !.query_pool = TRUE])]
        ELSE [ok |-> TRUE,
              c |-> [c2 EXCEPT
                  !.query_pool = TRUE,
                  !.frames = [i \in Slots |->
                      [c2.frames[i] EXCEPT
                          !.cmd_pool = TRUE,
                          !.cb_recorded = FALSE,
                          !.query_capacity = MAX_QUERIES_PER_FRAME,
                          !.query_used = 0,
                          !.has_queries = FALSE,
                          !.frame_serial = UINT64_MAX,
                          !.timestamp_cmds = kMaxPairsPerSampledFrame * 2]]]]

\* init_timestamp_resources turning the backend unsupported on a family
\* without the graphics bit.
init_timestamp_resources_GraphicsRequired(c, qfi, outcome) ==
    IF ~c.ts_supported THEN [ok |-> FALSE, c |-> c]
    ELSE IF c.mode # "Active" THEN [ok |-> FALSE, c |-> c]
    ELSE IF c.query_pool THEN [ok |-> TRUE, c |-> c]
    ELSE
      LET c1 == [c EXCEPT !.queue_family_index = qfi]
          vb == QueueFamilyProperties(qfi).timestampValidBits
      IN
      IF qfi >= qf_count
      THEN [ok |-> FALSE, c |-> [c1 EXCEPT !.ts_supported = FALSE]]
      ELSE IF vb = 0
      THEN [ok |-> FALSE, c |-> [c1 EXCEPT !.ts_supported = FALSE]]
      ELSE IF ~QueueFamilyProperties(qfi).graphics
      THEN [ok |-> FALSE, c |-> [c1 EXCEPT !.ts_supported = FALSE]]
      ELSE
        LET c2 == [c1 EXCEPT !.ts_valid_bits = vb] IN
        IF outcome = "query_pool_fail"
        THEN [ok |-> FALSE,
              c |-> [c2 EXCEPT !.query_pool = FALSE, !.ts_supported = FALSE]]
        ELSE IF outcome \in {"cmd_pool_fail", "alloc_fail"}
        THEN [ok |-> FALSE,
              c |-> [android_gpu_usage_destroy_timestamp_resources(
                        [c2 EXCEPT !.query_pool = TRUE])
                     EXCEPT !.ts_supported = FALSE]]
        ELSE [ok |-> TRUE,
              c |-> [c2 EXCEPT
                  !.query_pool = TRUE,
                  !.frames = [i \in Slots |->
                      [c2.frames[i] EXCEPT
                          !.cmd_pool = TRUE,
                          !.cb_recorded = FALSE,
                          !.query_capacity = MAX_QUERIES_PER_FRAME,
                          !.query_used = 0,
                          !.has_queries = FALSE,
                          !.frame_serial = UINT64_MAX,
                          !.timestamp_cmds = kMaxPairsPerSampledFrame * 2]]]]

\* init_timestamp_resources without the test of the mode.
init_timestamp_resources_AnyMode(c, qfi, outcome) ==
    IF ~c.ts_supported THEN [ok |-> FALSE, c |-> c]
    ELSE IF c.query_pool THEN [ok |-> TRUE, c |-> c]
    ELSE
      LET c1 == [c EXCEPT !.queue_family_index = qfi]
          vb == QueueFamilyProperties(qfi).timestampValidBits
      IN
      IF qfi >= qf_count
      THEN [ok |-> FALSE, c |-> [c1 EXCEPT !.ts_supported = FALSE]]
      ELSE IF vb = 0
      THEN [ok |-> FALSE, c |-> [c1 EXCEPT !.ts_supported = FALSE]]
      ELSE IF ~QueueFamilyProperties(qfi).graphics
      THEN [ok |-> FALSE, c |-> c1]
      ELSE
        LET c2 == [c1 EXCEPT !.ts_valid_bits = vb] IN
        IF outcome = "query_pool_fail"
        THEN [ok |-> FALSE,
              c |-> [c2 EXCEPT !.query_pool = FALSE, !.ts_supported = FALSE]]
        ELSE IF outcome \in {"cmd_pool_fail", "alloc_fail"}
        THEN [ok |-> FALSE,
              c |-> [android_gpu_usage_destroy_timestamp_resources(
                        [c2 EXCEPT !.query_pool = TRUE])
                     EXCEPT !.ts_supported = FALSE]]
        ELSE [ok |-> TRUE,
              c |-> [c2 EXCEPT
                  !.query_pool = TRUE,
                  !.frames = [i \in Slots |->
                      [c2.frames[i] EXCEPT
                          !.cmd_pool = TRUE,
                          !.cb_recorded = FALSE,
                          !.query_capacity = MAX_QUERIES_PER_FRAME,
                          !.query_used = 0,
                          !.has_queries = FALSE,
                          !.frame_serial = UINT64_MAX,
                          !.timestamp_cmds = kMaxPairsPerSampledFrame * 2]]]]

\* Lazy creation of the query pool, the command pools and the command buffers.
android_gpu_usage_init_timestamp_resources(c, qfi, outcome) ==
    IF ~c.ts_supported THEN [ok |-> FALSE, c |-> c]
    ELSE IF c.mode # "Active" THEN [ok |-> FALSE, c |-> c]
    ELSE IF c.query_pool THEN [ok |-> TRUE, c |-> c]
    ELSE
      LET c1 == [c EXCEPT !.queue_family_index = qfi]
          vb == QueueFamilyProperties(qfi).timestampValidBits
      IN
      IF qfi >= qf_count
      THEN [ok |-> FALSE, c |-> [c1 EXCEPT !.ts_supported = FALSE]]
      ELSE IF vb = 0
      THEN [ok |-> FALSE, c |-> [c1 EXCEPT !.ts_supported = FALSE]]
      ELSE IF ~QueueFamilyProperties(qfi).graphics
      THEN [ok |-> FALSE, c |-> c1]
      ELSE
        LET c2 == [c1 EXCEPT !.ts_valid_bits = vb] IN
        IF outcome = "query_pool_fail"
        THEN [ok |-> FALSE,
              c |-> [c2 EXCEPT !.query_pool = FALSE, !.ts_supported = FALSE]]
        ELSE IF outcome \in {"cmd_pool_fail", "alloc_fail"}
        THEN [ok |-> FALSE,
              c |-> [android_gpu_usage_destroy_timestamp_resources(
                        [c2 EXCEPT !.query_pool = TRUE])
                     EXCEPT !.ts_supported = FALSE]]
        ELSE [ok |-> TRUE,
              c |-> [c2 EXCEPT
                  !.query_pool = TRUE,
                  !.frames = [i \in Slots |->
                      [c2.frames[i] EXCEPT
                          !.cmd_pool = TRUE,
                          !.cb_recorded = FALSE,
                          !.query_capacity = MAX_QUERIES_PER_FRAME,
                          !.query_used = 0,
                          !.has_queries = FALSE,
                          !.frame_serial = UINT64_MAX,
                          !.timestamp_cmds = kMaxPairsPerSampledFrame * 2]]]]

\* ------------------------------------------------------------ frame slots
\* begin_frame without the same-serial early return.
begin_frame_AlwaysReset(c, frame_idx, frame_serial, now) ==
    LET fr == c.frames[frame_idx] IN
    IF fr.in_submit # 0 THEN [ok |-> FALSE, c |-> c]
    ELSE LET fr1 == [fr EXCEPT !.frame_serial = frame_serial,
                               !.query_used = 0,
                               !.has_queries = FALSE,
                               !.valid_pairs_mask = {},
                               !.valid_at = {}]
         IN [ok |-> TRUE,
             c |-> [c EXCEPT !.frames[frame_idx] =
                       IF fr1.timestamp_cmds # 0 THEN ResetCommandPool(fr1)
                       ELSE fr1]]

android_gpu_usage_begin_frame(c, frame_idx, frame_serial, now) ==
    LET fr == c.frames[frame_idx] IN
    IF fr.frame_serial = frame_serial THEN [ok |-> TRUE, c |-> c]
    ELSE IF fr.has_queries /\ fr.frame_serial # UINT64_MAX
    THEN IF frame_serial > fr.frame_serial
            /\ frame_serial - fr.frame_serial < MAX_FRAMES
         THEN [ok |-> FALSE, c |-> c]
         ELSE [ok |-> FALSE,
               c |-> android_gpu_usage_suspend_locked(c, now, kCooldownStaleSlot)]
    ELSE IF fr.in_submit # 0 THEN [ok |-> FALSE, c |-> c]
    ELSE LET fr1 == [fr EXCEPT !.frame_serial = frame_serial,
                               !.query_used = 0,
                               !.has_queries = FALSE,
                               !.valid_pairs_mask = {},
                               !.valid_at = {}]
         IN [ok |-> TRUE,
             c |-> [c EXCEPT !.frames[frame_idx] =
                       IF fr1.timestamp_cmds # 0 THEN ResetCommandPool(fr1)
                       ELSE fr1]]

android_gpu_usage_consume_slot(fr) ==
    [fr EXCEPT !.has_queries = FALSE,
               !.valid_pairs_mask = {},
               !.valid_at = {},
               !.query_used = 0,
               !.frame_serial = UINT64_MAX]

\* ------------------------------------------------------ submission planner
calc_pairs_left(query_used, query_capacity) ==
    LET used_pairs == query_used \div 2
        hard_cap   == Min(kMaxPairsPerSampledFrame, query_capacity \div 2)
    IN IF used_pairs < hard_cap THEN hard_cap - used_pairs ELSE 0

has_cmds(s) == Len(s) > 0

\* inst[i] of plan_instrumentation: the loop carries `planned`.
RECURSIVE PlanFrom(_, _, _, _, _, _)
PlanFrom(submits, i, planned, query_used, query_capacity, pairs_left) ==
    IF i > Len(submits) THEN <<>>
    ELSE
      LET can == /\ has_cmds(submits[i])
                 /\ planned < pairs_left
                 /\ query_used + (planned + 1) * 2 <= query_capacity
      IN <<can>> \o PlanFrom(submits, i + 1, IF can THEN planned + 1 ELSE planned,
                             query_used, query_capacity, pairs_left)

RECURSIVE SumSeq(_)
SumSeq(q) == IF q = <<>> THEN 0 ELSE Head(q) + SumSeq(Tail(q))

\* plan_instrumentation counting no room for the begin and end buffers.
plan_instrumentation_BaseCounts(submits, query_used, query_capacity, pairs_left) ==
    LET inst == PlanFrom(submits, 1, 0, query_used, query_capacity, pairs_left)
        counts == [i \in 1 .. Len(submits) |-> Len(submits[i])]
    IN [any        |-> \E i \in 1 .. Len(submits) : inst[i],
        inst       |-> inst,
        counts     |-> counts,
        total_flat |-> SumSeq(counts)]

plan_instrumentation(submits, query_used, query_capacity, pairs_left) ==
    LET inst   == PlanFrom(submits, 1, 0, query_used, query_capacity, pairs_left)
        counts == [i \in 1 .. Len(submits) |->
                      Len(submits[i]) + (IF inst[i] THEN 2 ELSE 0)]
    IN [any        |-> \E i \in 1 .. Len(submits) : inst[i],
        inst       |-> inst,
        counts     |-> counts,
        total_flat |-> SumSeq(counts)]

\* The reservation taking one query for a pair.
reserve_timestamp_pair_locked_OneQuery(c, fr) ==
    IF ~c.query_pool THEN [ok |-> FALSE, fr |-> fr, pair_index |-> 0, q0 |-> 0]
    ELSE IF fr.query_used + 2 > fr.query_capacity
    THEN [ok |-> FALSE, fr |-> fr, pair_index |-> 0, q0 |-> 0]
    ELSE IF fr.timestamp_cmds <= (fr.query_used \div 2) * 2 + 1
    THEN [ok |-> FALSE, fr |-> fr, pair_index |-> 0, q0 |-> 0]
    ELSE [ok         |-> TRUE,
          fr         |-> [fr EXCEPT !.query_used = @ + 1],
          pair_index |-> fr.query_used \div 2,
          q0         |-> fr.query_used]

android_gpu_usage_reserve_timestamp_pair_locked(c, fr) ==
    IF ~c.query_pool THEN [ok |-> FALSE, fr |-> fr, pair_index |-> 0, q0 |-> 0]
    ELSE IF fr.query_used + 2 > fr.query_capacity
    THEN [ok |-> FALSE, fr |-> fr, pair_index |-> 0, q0 |-> 0]
    ELSE IF fr.timestamp_cmds <= (fr.query_used \div 2) * 2 + 1
    THEN [ok |-> FALSE, fr |-> fr, pair_index |-> 0, q0 |-> 0]
    ELSE [ok         |-> TRUE,
          fr         |-> [fr EXCEPT !.query_used = @ + 2],
          pair_index |-> fr.query_used \div 2,
          q0         |-> fr.query_used]

\* build_wrapped_submits_locked from submission i on: the slot after the
\* reservations, the final inst flags, the record jobs and the new valid mask.
RECURSIVE BuildFrom(_, _, _, _, _)
BuildFrom(c, fr, submits, inst, i) ==
    IF i > Len(submits)
    THEN [fr |-> fr, inst |-> <<>>, jobs |-> <<>>, new_valid_mask |-> {}]
    ELSE IF ~inst[i]
    THEN LET rest == BuildFrom(c, fr, submits, inst, i + 1)
         IN [rest EXCEPT !.inst = <<FALSE>> \o @]
    ELSE
      LET r == android_gpu_usage_reserve_timestamp_pair_locked(c, fr) IN
      IF ~r.ok
      THEN LET rest == BuildFrom(c, fr, submits, inst, i + 1)
           IN [rest EXCEPT !.inst = <<FALSE>> \o @]
      ELSE LET rest == BuildFrom(c, r.fr, submits, inst, i + 1)
           IN [rest EXCEPT
                 !.inst = <<TRUE>> \o @,
                 !.jobs = <<[q0 |-> r.q0, pair_index |-> r.pair_index]>> \o @,
                 !.new_valid_mask =
                     (IF r.pair_index < 64 THEN {r.pair_index} ELSE {}) \cup @]

build_wrapped_submits_locked(c, fr, submits, inst) ==
    BuildFrom(c, fr, submits, inst, 1)

\* The augmented list: begin buffer, the original buffers, end buffer.
WrappedSubmits(submits, inst, jobs) ==
    LET RECURSIVE W(_, _)
        W(i, j) ==
            IF i > Len(submits) THEN <<>>
            ELSE IF inst[i]
            THEN << <<<<"begin", jobs[j].pair_index>>>> \o submits[i]
                    \o <<<<"end", jobs[j].pair_index>>>> >> \o W(i + 1, j + 1)
            ELSE <<submits[i]>> \o W(i + 1, j)
    IN W(1, 1)


\* The list handed to the native submit, read back from the scratch arrays:
\* offsets[] is the running sum of the planned counts (lines 581-585); the
\* loop of build_wrapped_submits_locked writes each planned submission into
\* tls.flat from its offset on (begin buffer, the original buffers, end
\* buffer, or the original buffers alone when the reservation failed) and
\* points wrapped[i] at what it wrote; a submission that was not planned
\* keeps its own array. A cell of tls.flat holds what the last write left.
FlatSubmits(submits, plan, inst, jobs) ==
    LET n == Len(submits)
        offsets == [i \in 1 .. n |-> SumSeq(SubSeq(plan.counts, 1, i - 1))]
        job(i) == jobs[Cardinality({k \in 1 .. i : inst[k]})]
        written(i) ==
            IF inst[i]
            THEN <<<<"begin", job(i).pair_index>>>> \o submits[i]
                    \o <<<<"end", job(i).pair_index>>>>
            ELSE submits[i]
        Writers(k) == {i \in 1 .. n : /\ plan.inst[i]
                                      /\ offsets[i] <= k
                                      /\ k < offsets[i] + Len(written(i))}
        flat(k) == LET i == CHOOSE w \in Writers(k) : \A v \in Writers(k) : v <= w
                   IN written(i)[k - offsets[i] + 1]
    IN [i \in 1 .. n |->
           IF ~plan.inst[i] THEN submits[i]
           ELSE [j \in 1 .. Len(written(i)) |-> flat(offsets[i] + j - 1)]]

\* --------------------------------------------------- commit/rollback helpers
\* rollback_slot_if_safe_locked restoring has_queries only.
rollback_slot_KeepsCount(c, fr, serial_snapshot, saved_query_used, saved_has_queries, reserved_delta_queries) ==
    IF c.destroying THEN fr
    ELSE IF fr.frame_serial # serial_snapshot THEN fr
    ELSE IF fr.query_used # saved_query_used + reserved_delta_queries THEN fr
    ELSE [fr EXCEPT !.has_queries = saved_has_queries]

rollback_slot_if_safe_locked(c, fr, serial_snapshot, saved_query_used, saved_has_queries, reserved_delta_queries) ==
    IF c.destroying THEN fr
    ELSE IF fr.frame_serial # serial_snapshot THEN fr
    ELSE IF fr.query_used # saved_query_used + reserved_delta_queries THEN fr
    ELSE [fr EXCEPT !.query_used = saved_query_used,
                    !.has_queries = saved_has_queries]

\* l is the calling thread's locals, idx the slot it armed.
finalize_submit_locked(c, idx, vr, l, now) ==
    LET fr == c.frames[idx] IN
    IF vr = "VK_SUCCESS"
    THEN [c EXCEPT !.frames[idx] =
            [fr EXCEPT !.valid_pairs_mask = @ \cup l.new_valid_mask,
                       !.has_queries = (fr.valid_pairs_mask \cup l.new_valid_mask) # {},
                       !.valid_at = @ \cup {<<p, l.serial_snapshot>> :
                                              p \in l.new_valid_mask}]]
    ELSE
      LET c1 == [c EXCEPT !.frames[idx] =
                    rollback_slot_if_safe_locked(c, fr, l.serial_snapshot,
                        l.saved_query_used, l.saved_has_queries,
                        l.reserved_delta_queries)]
      IN IF vr = "VK_ERROR_DEVICE_LOST"
         THEN DeviceLostBlock(c1)
         ELSE android_gpu_usage_suspend_locked(c1, now, kCooldownSubmitFail)

disarm_in_submit_locked(c, armed, slot_idx) ==
    IF ~armed THEN c
    ELSE [c EXCEPT !.frames[slot_idx].in_submit = @ - 1]

\* ------------------------------------------------------------ thread locals
\* What *out_gpu_ms and *out_usage hold until get_metrics writes them.
Untouched == <<0, 0>>

NoLocals ==
    [pc                     |-> "idle",
     qfi                    |-> 0,
     submits                |-> <<>>,
     serial_snapshot        |-> 0,
     saved_query_used       |-> 0,
     saved_has_queries      |-> FALSE,
     reserved_delta_queries |-> 0,
     new_valid_mask         |-> {},
     armed_slot             |-> FALSE,
     armed_slot_idx         |-> 0,
     inst                   |-> <<>>,
     jobs                   |-> <<>>,
     vr                     |-> "VK_SUCCESS",
     instrumented_executed  |-> FALSE,
     fast_pass              |-> FALSE,
     lock_pass              |-> FALSE,
     calls                  |-> <<>>,
     out_gpu_ms             |-> Untouched,
     out_usage              |-> Untouched,
     ret                    |-> "none",
     prog                   |-> <<>>,
     holds                  |-> <<>>]
\* prog and holds are used by the lock skeleton only: what is left of the
\* call's lock operations, and the locks the thread holds, oldest first.

\* Block (A) of android_gpu_usage_queue_submit_impl, run under ctx->lock: the
\* context after it and the caller's locals (armed_slot tells the two exits).
SubmitLockedBlock(c, l, now, outcome) ==
    LET pass(cx) == [c |-> cx, l |-> [l EXCEPT !.lock_pass = TRUE]]
        frame_serial == c.frame_index
    IN
    IF ~c.ts_supported THEN pass(c)
    ELSE IF frame_serial % 2 # 0 THEN pass(c)
    ELSE IF c.query_pool /\ c.queue_family_index # VK_QUEUE_FAMILY_IGNORED
            /\ c.queue_family_index # l.qfi THEN pass(c)
    ELSE
      LET ri == android_gpu_usage_init_timestamp_resources(c, l.qfi, outcome) IN
      IF ~ri.ok THEN pass(ri.c)
      ELSE
        LET curr_idx == frame_serial % MAX_FRAMES
            rb == android_gpu_usage_begin_frame(ri.c, curr_idx, frame_serial, now)
        IN
        IF ~rb.ok THEN pass(rb.c)
        ELSE
          LET fr == rb.c.frames[curr_idx]
              pairs_left == calc_pairs_left(fr.query_used, fr.query_capacity)
              plan == plan_instrumentation(l.submits, fr.query_used,
                                           fr.query_capacity, pairs_left)
          IN
          IF pairs_left = 0 THEN pass(rb.c)
          ELSE IF ~plan.any THEN pass(rb.c)
          ELSE IF plan.total_flat = 0 \/ plan.total_flat > kFlattenHardCap
          THEN pass(rb.c)
          ELSE
            LET bw == build_wrapped_submits_locked(rb.c, fr, l.submits, plan.inst)
                delta == bw.fr.query_used - fr.query_used
                cb == [rb.c EXCEPT !.frames[curr_idx] = bw.fr]
            IN
            IF delta = 0 \/ bw.new_valid_mask = {} THEN pass(cb)
            ELSE [c |-> [cb EXCEPT !.frames[curr_idx].in_submit = @ + 1],
                  l |-> [l EXCEPT
                           !.serial_snapshot = frame_serial,
                           !.saved_query_used = fr.query_used,
                           !.saved_has_queries = fr.has_queries,
                           !.reserved_delta_queries = delta,
                           !.new_valid_mask = bw.new_valid_mask,
                           !.armed_slot = TRUE,
                           !.armed_slot_idx = curr_idx,
                           !.inst = bw.inst,
                           !.jobs = bw.jobs]]

\* The locked block after a failed recording without the suspension.
RecordFailedBlock_NoSuspend(c, l, now) ==
    LET idx == l.armed_slot_idx
        c1 == disarm_in_submit_locked(c, l.armed_slot, idx)
    IN [c1 EXCEPT !.frames[idx] =
           ResetCommandPool(
               rollback_slot_if_safe_locked(c1, c1.frames[idx],
                   l.serial_snapshot, l.saved_query_used,
                   l.saved_has_queries, l.reserved_delta_queries))]

\* The locked block after a failed recording (lines 628-640).
RecordFailedBlock(c, l, now) ==
    LET idx == l.armed_slot_idx
        c1 == disarm_in_submit_locked(c, l.armed_slot, idx)
        c2 == [c1 EXCEPT !.frames[idx] =
                  ResetCommandPool(
                      rollback_slot_if_safe_locked(c1, c1.frames[idx],
                          l.serial_snapshot, l.saved_query_used,
                          l.saved_has_queries, l.reserved_delta_queries))]
    IN android_gpu_usage_suspend_locked(c2, now, kCooldownRecordFail)

\* The locked block after submit_with_fallback finalizing whatever list ran.
SubmitResultBlock_NoExecutedTest(c, l, now) ==
    LET idx == l.armed_slot_idx
        c1 == disarm_in_submit_locked(c, l.armed_slot, idx)
    IN finalize_submit_locked(c1, idx, l.vr, l, now)

\* The locked block after submit_with_fallback (lines 650-672).
SubmitResultBlock(c, l, now) ==
    LET idx == l.armed_slot_idx
        c1 == disarm_in_submit_locked(c, l.armed_slot, idx)
    IN
    IF ~l.instrumented_executed
    THEN LET c2 == [c1 EXCEPT !.frames[idx] =
                      ResetCommandPool(
                          rollback_slot_if_safe_locked(c1, c1.frames[idx],
                              l.serial_snapshot, l.saved_query_used,
                              l.saved_has_queries, l.reserved_delta_queries))]
         IN android_gpu_usage_suspend_locked(c2, now, kCooldownSubmitFail)
    ELSE finalize_submit_locked(c1, idx, l.vr, l, now)


\* submit_with_fallback submitting the original list whatever the first
\* submit returned.
submit_with_fallback_AlwaysRetry(vr) ==
    [fallback |-> TRUE, instrumented_executed |-> vr = "VK_SUCCESS"]

\* submit_with_fallback without its second submit.
submit_with_fallback_NoRetry(vr) ==
    [fallback |-> FALSE, instrumented_executed |-> TRUE]

\* submit_with_fallback after the native submit of the augmented list returned
\* vr: whether the original list is submitted next.
submit_with_fallback(vr) ==
    IF vr = "VK_SUCCESS" THEN [fallback |-> FALSE, instrumented_executed |-> TRUE]
    ELSE IF vr = "VK_ERROR_DEVICE_LOST"
    THEN [fallback |-> FALSE, instrumented_executed |-> TRUE]
    ELSE [fallback |-> TRUE, instrumented_executed |-> FALSE]

\* ------------------------------------------------------------ the collector
NoRead ==
    [have |-> FALSE, slot_idx |-> 0, serial |-> 0, q_count |-> 0,
     valid_mask |-> {}, cpu_ms |-> 0, probe |-> FALSE]

Pending(fr) ==
    fr.has_queries /\ fr.valid_pairs_mask # {} /\ fr.query_used >= 2

ReadOf(c, idx, cpu_ring, probe) ==
    [have       |-> TRUE,
     slot_idx   |-> idx,
     serial     |-> c.frames[idx].frame_serial,
     q_count    |-> c.frames[idx].query_used,
     valid_mask |-> c.frames[idx].valid_pairs_mask,
     cpu_ms     |-> IF c.frames[idx].frame_serial \in cpu_ring
                    THEN frame_cpu_ms ELSE 0,
     probe      |-> probe]

\* The Active-mode loop without the FRAME_LAG test.
RECURSIVE ScanActive_NoLag(_, _, _)
ScanActive_NoLag(c, cpu_ring, step) ==
    LET serial == c.read_serial
        idx    == serial % MAX_FRAMES
        fr     == c.frames[idx]
    IN
    IF step >= MAX_FRAMES THEN [c |-> c, read |-> NoRead]
    ELSE IF serial > c.frame_index THEN [c |-> c, read |-> NoRead]
    ELSE IF ~(fr.frame_serial = serial /\ Pending(fr))
    THEN ScanActive_NoLag([c EXCEPT !.read_serial = @ + 1], cpu_ring, step + 1)
    ELSE [c |-> c, read |-> ReadOf(c, idx, cpu_ring, FALSE)]

\* The Active-mode loop of on_present (lines 1493-1518), from iteration `step`.
RECURSIVE ScanActive(_, _, _)
ScanActive(c, cpu_ring, step) ==
    LET serial == c.read_serial
        idx    == serial % MAX_FRAMES
        fr     == c.frames[idx]
    IN
    IF step >= MAX_FRAMES THEN [c |-> c, read |-> NoRead]
    ELSE IF serial + FRAME_LAG > c.frame_index THEN [c |-> c, read |-> NoRead]
    ELSE IF ~(fr.frame_serial = serial /\ Pending(fr))
    THEN ScanActive([c EXCEPT !.read_serial = @ + 1], cpu_ring, step + 1)
    ELSE [c |-> c, read |-> ReadOf(c, idx, cpu_ring, FALSE)]

\* The Suspended-mode probe (lines 1519-1550).
PendingSlots(c) ==
    {i \in Slots : Pending(c.frames[i]) /\ c.frames[i].frame_serial # UINT64_MAX}

ProbeSuspended(c, cpu_ring) ==
    IF PendingSlots(c) # {}
    THEN LET best == CHOOSE i \in PendingSlots(c) :
                        \A j \in PendingSlots(c) :
                            \/ c.frames[i].frame_serial < c.frames[j].frame_serial
                            \/ (c.frames[i].frame_serial = c.frames[j].frame_serial
                                /\ i <= j)
         IN [c |-> c, read |-> ReadOf(c, best, cpu_ring, TRUE)]
    ELSE [c |-> [c EXCEPT !.mode = "Active",
                          !.notready_streak = 0,
                          !.error_streak = 0],
          read |-> NoRead]

\* Block (A) of on_present after the destroying and Disabled checks.
PresentSelectBlock(c, cpu_ring, now) ==
    LET probe == /\ c.mode = "Suspended"
                 /\ now >= c.suspend_until
                 /\ (c.last_probe = 0 \/ now - c.last_probe >= kSuspendedProbeEvery)
        c1 == IF probe THEN [c EXCEPT !.last_probe = now] ELSE c
    IN
    IF ~(c1.ts_supported /\ c1.query_pool) THEN [c |-> c1, read |-> NoRead]
    ELSE IF c1.mode = "Active" THEN ScanActive(c1, cpu_ring, 0)
    ELSE IF probe THEN ProbeSuspended(c1, cpu_ring)
    ELSE [c |-> c1, read |-> NoRead]

\* Block (C) consuming the slot whose poll returned Error.
PresentCommitBlock_ErrorConsumes(c, read, st, pnow, now) ==
    LET bump(cx) == [cx EXCEPT !.frame_index = @ + 1] IN
    IF st = "DeviceLost"
    THEN [c |-> bump(DeviceLostBlock(c)), st |-> st]
    ELSE IF st = "Ready"
    THEN LET fr == c.frames[read.slot_idx] IN
         IF fr.frame_serial = read.serial /\ fr.has_queries
            /\ fr.query_used = read.q_count
         THEN LET c1 == [c EXCEPT
                            !.frames[read.slot_idx] = android_gpu_usage_consume_slot(fr),
                            !.read_serial = IF c.mode = "Active" THEN read.serial + 1
                                            ELSE Max(@, read.serial + 1),
                            !.notready_streak = 0,
                            !.error_streak = 0]
                  resume == /\ c1.mode = "Suspended"
                            /\ ~(\E i \in Slots : c1.frames[i].has_queries)
                            /\ pnow >= c1.suspend_until
              IN [c |-> bump(IF resume THEN [c1 EXCEPT !.mode = "Active"] ELSE c1),
                  st |-> st]
         ELSE [c |-> bump(c), st |-> "NotReady"]
    ELSE IF st = "Error"
    THEN [c |-> bump(android_gpu_usage_suspend_locked(
                        [c EXCEPT !.error_streak = @ + 1,
                                  !.frames[read.slot_idx] =
                                      android_gpu_usage_consume_slot(@)],
                        now, kCooldownReadError)),
          st |-> st]
    ELSE LET c1 == [c EXCEPT !.notready_streak = @ + 1] IN
         [c |-> bump(IF c1.notready_streak >= kNotReadyLimit
                     THEN [android_gpu_usage_suspend_locked(c1, now,
                               kCooldownNotReadyLong)
                           EXCEPT !.notready_streak = 0]
                     ELSE c1),
          st |-> st]

\* Block (C) of on_present: the context and the status the metrics block sees.
\* pnow is the present's `now`, now the clock suspend_locked reads.
PresentCommitBlock(c, read, st, pnow, now) ==
    LET bump(cx) == [cx EXCEPT !.frame_index = @ + 1] IN
    IF st = "DeviceLost"
    THEN [c |-> bump(DeviceLostBlock(c)), st |-> st]
    ELSE IF st = "Ready"
    THEN LET fr == c.frames[read.slot_idx] IN
         IF fr.frame_serial = read.serial /\ fr.has_queries
            /\ fr.query_used = read.q_count
         THEN LET c1 == [c EXCEPT
                            !.frames[read.slot_idx] = android_gpu_usage_consume_slot(fr),
                            !.read_serial = IF c.mode = "Active" THEN read.serial + 1
                                            ELSE Max(@, read.serial + 1),
                            !.notready_streak = 0,
                            !.error_streak = 0]
                  resume == /\ c1.mode = "Suspended"
                            /\ ~(\E i \in Slots : c1.frames[i].has_queries)
                            /\ pnow >= c1.suspend_until
              IN [c |-> bump(IF resume THEN [c1 EXCEPT !.mode = "Active"] ELSE c1),
                  st |-> st]
         ELSE [c |-> bump(c), st |-> "NotReady"]
    ELSE IF st = "Error"
    THEN [c |-> bump(android_gpu_usage_suspend_locked(
                        [c EXCEPT !.error_streak = @ + 1], now, kCooldownReadError)),
          st |-> st]
    ELSE LET c1 == [c EXCEPT !.notready_streak = @ + 1] IN
         [c |-> bump(IF c1.notready_streak >= kNotReadyLimit
                     THEN [android_gpu_usage_suspend_locked(c1, now,
                               kCooldownNotReadyLong)
                           EXCEPT !.notready_streak = 0]
                     ELSE c1),
          st |-> st]

\* Exact fractions <<numerator, denominator>> in lowest terms stand for the
\* code's float and double values (rounding is not modelled).
RECURSIVE GCD(_, _)
GCD(a, b) == IF b = 0 THEN a ELSE GCD(b, a % b)

Rat(n, d) == LET g == GCD(n, d) IN IF g = 0 THEN <<0, 1>> ELSE <<n \div g, d \div g>>

RatLess(x, y) == x[1] * y[2] < y[1] * x[2]

\* No smoothing: the new value replaces the old one.
Blend_NewOnly(x, y) == y

\* x * (1 - alpha) + y * alpha with alpha = 0.5f
Blend(x, y) == Rat(x[1] * y[2] + y[1] * x[2], 2 * x[2] * y[2])

\* usage of a closing window: (avg_gpu_ms / avg_cpu_ms) * 100, clamped to [0, 100].
WindowUsage(m) ==
    LET u == Rat(m.acc_gpu_ms * m.acc_frames_sampled * 100,
                 m.acc_gpu_samples * m.acc_cpu_ms_sampled)
    IN IF m.acc_gpu_ms = 0 THEN <<0, 1>>
       ELSE IF RatLess(<<100, 1>>, u) THEN <<100, 1>> ELSE u

\* The metrics block forgetting its values when a window closes empty.
PresentMetricsBlock_ClearsOnEmpty(m, read, st, frame_gpu_ms, pnow) ==
    LET m1 == IF m.window_start = 0 THEN [m EXCEPT !.window_start = pnow] ELSE m
        m2 == IF st = "Ready" /\ frame_gpu_ms > 0 /\ read.cpu_ms > 0
              THEN [m1 EXCEPT !.acc_cpu_ms_sampled = @ + read.cpu_ms,
                              !.acc_frames_sampled = @ + 1,
                              !.acc_gpu_ms = @ + frame_gpu_ms,
                              !.acc_gpu_samples = @ + 1]
              ELSE m1
        produces == m2.acc_gpu_samples > 0 /\ m2.acc_frames_sampled > 0
                    /\ m2.acc_cpu_ms_sampled > 0
        usage == WindowUsage(m2)
        avg_gpu_ms == Rat(m2.acc_gpu_ms, m2.acc_gpu_samples)
        su == IF ~m2.have_metrics THEN usage ELSE Blend(m2.smooth_usage, usage)
        sg == IF ~m2.have_metrics THEN avg_gpu_ms
              ELSE Blend(m2.smooth_gpu_ms, avg_gpu_ms)
        m3 == IF produces
              THEN [m2 EXCEPT !.smooth_usage = su,
                              !.smooth_gpu_ms = sg,
                              !.last_usage = su,
                              !.last_gpu_ms = sg,
                              !.have_metrics = TRUE]
              ELSE [m2 EXCEPT !.last_usage = <<0, 1>>,
                              !.last_gpu_ms = <<0, 1>>,
                              !.have_metrics = FALSE]
    IN IF pnow - m2.window_start >= WINDOW
       THEN [m3 EXCEPT !.acc_cpu_ms_sampled = 0,
                       !.acc_frames_sampled = 0,
                       !.acc_gpu_ms = 0,
                       !.acc_gpu_samples = 0,
                       !.window_start = pnow]
       ELSE m2

\* Block (D) of on_present: the 500 ms window.
PresentMetricsBlock(m, read, st, frame_gpu_ms, pnow) ==
    LET m1 == IF m.window_start = 0 THEN [m EXCEPT !.window_start = pnow] ELSE m
        m2 == IF st = "Ready" /\ frame_gpu_ms > 0 /\ read.cpu_ms > 0
              THEN [m1 EXCEPT !.acc_cpu_ms_sampled = @ + read.cpu_ms,
                              !.acc_frames_sampled = @ + 1,
                              !.acc_gpu_ms = @ + frame_gpu_ms,
                              !.acc_gpu_samples = @ + 1]
              ELSE m1
        produces == m2.acc_gpu_samples > 0 /\ m2.acc_frames_sampled > 0
                    /\ m2.acc_cpu_ms_sampled > 0
        usage == WindowUsage(m2)
        avg_gpu_ms == Rat(m2.acc_gpu_ms, m2.acc_gpu_samples)
        su == IF ~m2.have_metrics THEN usage ELSE Blend(m2.smooth_usage, usage)
        sg == IF ~m2.have_metrics THEN avg_gpu_ms
              ELSE Blend(m2.smooth_gpu_ms, avg_gpu_ms)
        m3 == IF produces
              THEN [m2 EXCEPT !.smooth_usage = su,
                              !.smooth_gpu_ms = sg,
                              !.last_usage = su,
                              !.last_gpu_ms = sg,
                              !.have_metrics = TRUE]
              ELSE m2
    IN IF pnow - m2.window_start >= WINDOW
       THEN [m3 EXCEPT !.acc_cpu_ms_sampled = 0,
                       !.acc_frames_sampled = 0,
                       !.acc_gpu_ms = 0,
                       !.acc_gpu_samples = 0,
                       !.window_start = pnow]
       ELSE m2


\* ------------------------------------------------------------------ state
Submitters == {"t1", "t2"}
Presenter == "p"
Threads == Submitters \cup {Presenter}

VARIABLES
    ctx,          \* AndroidVkGpuContext, the fields guarded by ctx->lock and the atomics
    metrics,      \* the fields guarded by metrics_mtx
    env_enabled,  \* MANGOHUD_VKP=1, read once and cached
    th,           \* each thread's position and the locals of its entry-point call
    pr,           \* the locals of the present call
    record_mtx,   \* holder of ctx->record_mtx
    dpc,          \* position of android_gpu_usage_destroy
    clock,        \* std::chrono::steady_clock
    callsLeft,    \* submit calls the application still makes
    faultsLeft,   \* faults the environment still injects
    metricsLeft,  \* get_metrics calls still made
    run           \* the shape of the run: submitting threads and presents

vars == <<ctx, metrics, env_enabled, th, pr, record_mtx, dpc, clock,
          callsLeft, faultsLeft, metricsLeft, run>>

\* avail: the pairs whose two availability words the last poll found non-zero.
NoPresent ==
    [now |-> 0, read |-> NoRead, st |-> "NotReady", frame_gpu_ms |-> 0, avail |-> {}]

InitCtx(supported) ==
    [ts_supported       |-> supported,
     ts_valid_bits      |-> 36,
     mode               |-> "Active",
     query_pool         |-> FALSE,
     queue_family_index |-> VK_QUEUE_FAMILY_IGNORED,
     frames             |-> [i \in Slots |-> EmptyFrame],
     frame_index        |-> 0,
     read_serial        |-> 0,
     suspend_until      |-> 0,
     last_probe         |-> 0,
     notready_streak    |-> 0,
     error_streak       |-> 0,
     destroying         |-> FALSE,
     in_flight          |-> 0]

InitMetrics ==
    [have_metrics       |-> FALSE,
     window_start       |-> 0,
     acc_cpu_ms_sampled |-> 0,
     acc_frames_sampled |-> 0,
     acc_gpu_ms         |-> 0,
     acc_gpu_samples    |-> 0,
     smooth_usage       |-> <<0, 1>>,
     smooth_gpu_ms      |-> <<0, 1>>,
     last_usage         |-> <<0, 1>>,
     last_gpu_ms        |-> <<0, 1>>,
     cpu_ring           |-> {}]

\* android_gpu_usage_create: ts_supported is dispatch_ok && ts_period_ns > 0 when
\* the environment enables the backend, false otherwise.
InitState(calls, faults, metricsCalls, threads, presents) ==
    /\ env_enabled \in BOOLEAN
    /\ \E supported \in BOOLEAN :
          /\ (supported => env_enabled)
          /\ ctx = InitCtx(supported)
    /\ metrics = InitMetrics
    /\ th = [t \in Threads |-> NoLocals]
    /\ pr = NoPresent
    /\ record_mtx = "free"
    /\ dpc = "none"
    /\ clock = ClockStep
    /\ callsLeft = calls
    /\ faultsLeft = faults
    /\ metricsLeft = metricsCalls
    /\ run = [threads |-> threads, presents |-> presents]

\* One submitting thread and the presenting thread.
Init == InitState(MaxCalls, MaxFaults, 0, 1, MaxSerial)

Alive == dpc # "done"

NativeResults == IF faultsLeft > 0 THEN VkResults ELSE {"VK_SUCCESS"}
Spend(r) == faultsLeft' = IF r = "VK_SUCCESS" THEN faultsLeft ELSE faultsLeft - 1

\* ------------------------------------------------------------ lifetime guard
\* AndroidGpuApiGuard constructor.
GuardEnter(c) == [c EXCEPT !.in_flight = @ + 1]

\* ~AndroidGpuApiGuard: the fetch_sub; the thread that took the counter to zero
\* goes on to load `destroying` and notify.
GuardDtor(t) ==
    /\ Alive
    /\ th[t].pc = "ret"
    /\ ctx' = [ctx EXCEPT !.in_flight = @ - 1]
    /\ th' = [th EXCEPT ![t] = IF ctx.in_flight = 1
                               THEN [NoLocals EXCEPT !.pc = "notify"]
                               ELSE NoLocals]
    /\ pr' = IF t = Presenter THEN NoPresent ELSE pr
    /\ UNCHANGED <<metrics, env_enabled, record_mtx, dpc, clock,
                   callsLeft, faultsLeft, metricsLeft, run>>

GuardNotify(t) ==
    /\ Alive
    /\ th[t].pc = "notify"
    /\ th' = [th EXCEPT ![t] = NoLocals]
    /\ dpc' = IF ctx.destroying /\ dpc = "waiting" THEN "check" ELSE dpc
    /\ UNCHANGED <<ctx, metrics, env_enabled, pr, record_mtx, clock,
                   callsLeft, faultsLeft, metricsLeft, run>>

\* ------------------------------------------------------------ submit wrapper
\* The submitting threads are interchangeable: of the idle ones the first makes
\* the next call.
FirstIdle(t) == t = "t1" \/ (run.threads >= 2 /\ th["t1"].pc # "idle")

\* The lock-free checks of the entry point (lines 1333-1340).
FastPathPasses(c) ==
    c.destroying \/ ~c.ts_supported \/ ~android_gpu_usage_should_sample(c)

\* The guard's constructor and the lock-free checks that follow it.
Enter(t) ==
    /\ Alive
    /\ t \in Submitters
    /\ th[t].pc = "idle"
    /\ FirstIdle(t)
    /\ callsLeft > 0
    /\ callsLeft' = callsLeft - 1
    /\ th' = [th EXCEPT ![t] = IF FastPathPasses(ctx)
                               THEN [NoLocals EXCEPT !.pc = "pass", !.fast_pass = TRUE]
                               ELSE [NoLocals EXCEPT !.pc = "lock"]]
    /\ ctx' = GuardEnter(ctx)
    /\ UNCHANGED <<metrics, env_enabled, pr, record_mtx, dpc, clock,
                   faultsLeft, metricsLeft, run>>

android_gpu_usage_queue_submit(t) == Enter(t)

android_gpu_usage_queue_submit2(t) == Enter(t)

\* The arguments of the call (the submissions and the queue family) are first
\* read here.
SubmitLocked(t) ==
    /\ Alive
    /\ th[t].pc = "lock"
    /\ \E s \in SubmitInputs, q \in QfiInputs :
       \E outcome \in (IF faultsLeft > 0 /\ ctx.frame_index % 2 = 0
                          /\ InitReachesDriver(ctx, q)
                       THEN InitOutcomes ELSE {"ok"}) :
          LET r == SubmitLockedBlock(ctx, [th[t] EXCEPT !.submits = s, !.qfi = q],
                                     clock, outcome) IN
          /\ ctx' = r.c
          /\ th' = [th EXCEPT ![t] = IF r.l.armed_slot
                                     THEN [r.l EXCEPT !.pc = "record"]
                                     ELSE [th[t] EXCEPT !.pc = "pass",
                                                        !.lock_pass = TRUE]]
          /\ faultsLeft' = IF outcome = "ok" THEN faultsLeft ELSE faultsLeft - 1
    /\ UNCHANGED <<metrics, env_enabled, pr, record_mtx, dpc, clock,
                   callsLeft, metricsLeft, run>>

\* return submit_fn(submitCount, pSubmits, fence) of the pass-through exits.
SubmitPassThrough(t) ==
    /\ Alive
    /\ th[t].pc = "pass"
    /\ \E r \in NativeResults :
          /\ th' = [th EXCEPT ![t] = [@ EXCEPT !.pc = "ret", !.ret = r,
                                         !.calls = Append(@, <<"orig", r>>)]]
          /\ Spend(r)
    /\ UNCHANGED <<ctx, metrics, env_enabled, pr, record_mtx, dpc, clock,
                   callsLeft, metricsLeft, run>>

RecordLock(t) ==
    /\ Alive
    /\ th[t].pc = "record"
    /\ record_mtx = "free"
    /\ record_mtx' = t
    /\ th' = [th EXCEPT ![t].pc = "recording"]
    /\ UNCHANGED <<ctx, metrics, env_enabled, pr, dpc, clock,
                   callsLeft, faultsLeft, metricsLeft, run>>

\* The recording loop under record_mtx; a driver failure ends it early, with
\* or without a command buffer recorded before it.
RecordJobs(t) ==
    /\ Alive
    /\ th[t].pc = "recording"
    /\ record_mtx = t
    /\ record_mtx' = "free"
    /\ \E record_ok \in (IF faultsLeft > 0 THEN BOOLEAN ELSE {TRUE}) :
       \E recorded \in (IF record_ok THEN {TRUE} ELSE BOOLEAN) :
          /\ th' = [th EXCEPT ![t].pc = IF record_ok THEN "submit" ELSE "record_failed"]
          /\ ctx' = [ctx EXCEPT !.frames[th[t].armed_slot_idx].cb_recorded =
                                    @ \/ recorded]
          /\ faultsLeft' = IF record_ok THEN faultsLeft ELSE faultsLeft - 1
    /\ UNCHANGED <<metrics, env_enabled, pr, dpc, clock, callsLeft, metricsLeft, run>>

\* if (!record_ok) { lock; disarm; rollback; reset pool; suspend; return submit_fn(...) }
\* The native submit of the original list runs before the lock guard leaves scope.
SubmitRecordFailed(t) ==
    /\ Alive
    /\ th[t].pc = "record_failed"
    /\ ctx' = RecordFailedBlock(ctx, th[t], clock)
    /\ \E r \in NativeResults :
          /\ th' = [th EXCEPT ![t] = [@ EXCEPT !.pc = "ret", !.ret = r,
                                         !.armed_slot = FALSE,
                                         !.calls = Append(@, <<"orig", r>>)]]
          /\ Spend(r)
    /\ UNCHANGED <<metrics, env_enabled, pr, record_mtx, dpc, clock,
                   callsLeft, metricsLeft, run>>

\* submit_with_fallback: the native submit of the augmented list.
SubmitInstrumented(t) ==
    /\ Alive
    /\ th[t].pc = "submit"
    /\ \E r \in NativeResults :
          LET f == submit_with_fallback(r) IN
          /\ th' = [th EXCEPT ![t] =
                      [@ EXCEPT !.pc = IF f.fallback THEN "fallback" ELSE "finalize",
                                !.vr = r,
                                !.instrumented_executed = f.instrumented_executed,
                                !.calls = Append(@, <<"inst", r>>)]]
          /\ Spend(r)
    /\ UNCHANGED <<ctx, metrics, env_enabled, pr, record_mtx, dpc, clock,
                   callsLeft, metricsLeft, run>>

\* submit_with_fallback: the native submit of the original list.
SubmitFallback(t) ==
    /\ Alive
    /\ th[t].pc = "fallback"
    /\ \E r \in NativeResults :
          /\ th' = [th EXCEPT ![t] = [@ EXCEPT !.pc = "finalize", !.vr = r,
                                         !.instrumented_executed = FALSE,
                                         !.calls = Append(@, <<"orig", r>>)]]
          /\ Spend(r)
    /\ UNCHANGED <<ctx, metrics, env_enabled, pr, record_mtx, dpc, clock,
                   callsLeft, metricsLeft, run>>

SubmitFinalize(t) ==
    /\ Alive
    /\ th[t].pc = "finalize"
    /\ ctx' = SubmitResultBlock(ctx, th[t], clock)
    /\ th' = [th EXCEPT ![t] = [@ EXCEPT !.pc = "ret", !.ret = th[t].vr,
                                   !.armed_slot = FALSE]]
    /\ UNCHANGED <<metrics, env_enabled, pr, record_mtx, dpc, clock,
                   callsLeft, faultsLeft, metricsLeft, run>>


\* ------------------------------------------------------------ on_present
\* The guard's constructor, the early returns, `now`, and the first metrics_mtx
\* block (the CPU ring).
android_gpu_usage_on_present ==
    /\ Alive
    /\ th[Presenter].pc = "idle"
    /\ ctx.frame_index < run.presents
    /\ ctx' = GuardEnter(ctx)
    /\ IF ~env_enabled \/ ctx.destroying
       THEN /\ th' = [th EXCEPT ![Presenter].pc = "ret"]
            /\ UNCHANGED <<metrics, pr>>
       ELSE /\ th' = [th EXCEPT ![Presenter].pc = "p_select"]
            /\ pr' = [pr EXCEPT !.now = clock]
            /\ metrics' = [metrics EXCEPT !.cpu_ring = @ \cup {ctx.frame_index}]
    /\ UNCHANGED <<env_enabled, record_mtx, dpc, clock,
                   callsLeft, faultsLeft, metricsLeft, run>>

\* Block (A): candidate selection under ctx->lock.
PresentSelect ==
    /\ Alive
    /\ th[Presenter].pc = "p_select"
    /\ IF ctx.destroying
       THEN /\ th' = [th EXCEPT ![Presenter].pc = "ret"]
            /\ UNCHANGED <<ctx, pr>>
       ELSE IF ctx.mode = "Disabled"
       THEN /\ ctx' = [ctx EXCEPT !.frame_index = @ + 1]
            /\ th' = [th EXCEPT ![Presenter].pc = "ret"]
            /\ UNCHANGED pr
       ELSE LET r == PresentSelectBlock(ctx, metrics.cpu_ring, pr.now) IN
            /\ ctx' = r.c
            /\ pr' = [pr EXCEPT !.read = r.read]
            /\ th' = [th EXCEPT ![Presenter].pc =
                         IF r.read.have THEN "p_poll" ELSE "p_commit"]
    /\ UNCHANGED <<metrics, env_enabled, record_mtx, dpc, clock,
                   callsLeft, faultsLeft, metricsLeft, run>>

ReadStatuses == {"Ready", "NotReady", "Error", "DeviceLost"}

\* Busy times (ms) a Ready poll computes: none, or half a frame's CPU time.
GpuMsInputs == {0, 8}

\* android_gpu_usage_query_range_gpu_ms, called without ctx->lock: what the
\* driver answers decides the status and the busy time (frame_gpu_ms).
PresentPoll ==
    /\ Alive
    /\ th[Presenter].pc = "p_poll"
    /\ IF ~ctx.ts_supported \/ ~ctx.query_pool
          \/ pr.read.q_count < 2 \/ pr.read.q_count % 2 = 1
       THEN /\ pr' = [pr EXCEPT !.st = "Error"]
            /\ UNCHANGED faultsLeft
       ELSE \E st \in (IF faultsLeft > 0 THEN ReadStatuses ELSE {"Ready"}),
               g \in (IF faultsLeft > 0 THEN GpuMsInputs ELSE GpuMsInputs \ {0}) :
               /\ (st # "Ready" => g = 0)
               /\ pr' = [pr EXCEPT !.st = st, !.frame_gpu_ms = g]
               /\ faultsLeft' = IF g > 0 THEN faultsLeft ELSE faultsLeft - 1
    /\ th' = [th EXCEPT ![Presenter].pc = "p_commit"]
    /\ UNCHANGED <<ctx, metrics, env_enabled, record_mtx, dpc, clock,
                   callsLeft, metricsLeft, run>>

\* Block (C): consume / suspend / advance under ctx->lock.
PresentCommit ==
    /\ Alive
    /\ th[Presenter].pc = "p_commit"
    /\ LET r == PresentCommitBlock(ctx, pr.read, pr.st, pr.now, clock) IN
          /\ ctx' = r.c
          /\ pr' = [pr EXCEPT !.st = r.st,
                              !.frame_gpu_ms = IF r.st = "Ready" THEN @ ELSE 0]
    /\ th' = [th EXCEPT ![Presenter].pc = "p_metrics"]
    /\ UNCHANGED <<metrics, env_enabled, record_mtx, dpc, clock,
                   callsLeft, faultsLeft, metricsLeft, run>>

\* Block (D): the metrics window under metrics_mtx.
PresentMetrics ==
    /\ Alive
    /\ th[Presenter].pc = "p_metrics"
    /\ metrics' = PresentMetricsBlock(metrics, pr.read, pr.st, pr.frame_gpu_ms, pr.now)
    /\ th' = [th EXCEPT ![Presenter].pc = "ret"]
    /\ UNCHANGED <<ctx, env_enabled, pr, record_mtx, dpc, clock,
                   callsLeft, faultsLeft, metricsLeft, run>>

\* ------------------------------------------------------------ get_metrics
android_gpu_usage_get_metrics(t) ==
    /\ Alive
    /\ th[t].pc = "idle"
    /\ metricsLeft > 0
    /\ metricsLeft' = metricsLeft - 1
    /\ ctx' = GuardEnter(ctx)
    /\ th' = [th EXCEPT ![t].pc = "gm"]
    /\ UNCHANGED <<metrics, env_enabled, pr, record_mtx, dpc, clock,
                   callsLeft, faultsLeft, run>>

\* get_metrics without its have_metrics test.
GetMetricsBody_NoHaveTest(t) ==
    /\ Alive
    /\ th[t].pc = "gm"
    /\ th' = [th EXCEPT ![t] =
                 IF env_enabled /\ ~ctx.destroying
                 THEN [@ EXCEPT !.pc = "ret",
                                !.out_gpu_ms = metrics.last_gpu_ms,
                                !.out_usage = metrics.last_usage,
                                !.ret = "true"]
                 ELSE [@ EXCEPT !.pc = "ret", !.ret = "false"]]
    /\ UNCHANGED <<ctx, metrics, env_enabled, pr, record_mtx, dpc, clock,
                   callsLeft, faultsLeft, metricsLeft, run>>

\* The body of get_metrics after the guard's constructor.
GetMetricsBody(t) ==
    /\ Alive
    /\ th[t].pc = "gm"
    /\ th' = [th EXCEPT ![t] =
                 IF env_enabled /\ ~ctx.destroying /\ metrics.have_metrics
                 THEN [@ EXCEPT !.pc = "ret",
                                !.out_gpu_ms = metrics.last_gpu_ms,
                                !.out_usage = metrics.last_usage,
                                !.ret = "true"]
                 ELSE [@ EXCEPT !.pc = "ret", !.ret = "false"]]
    /\ UNCHANGED <<ctx, metrics, env_enabled, pr, record_mtx, dpc, clock,
                   callsLeft, faultsLeft, metricsLeft, run>>

\* ------------------------------------------------------------ destroy
\* destroying.store(true)
DestroyStart ==
    /\ dpc = "none"
    /\ ctx' = [ctx EXCEPT !.destroying = TRUE]
    /\ dpc' = "check"
    /\ UNCHANGED <<metrics, env_enabled, th, pr, record_mtx, clock,
                   callsLeft, faultsLeft, metricsLeft, run>>

\* cv.wait returning without a look at in_flight.
DestroyCheck_NoWait ==
    /\ dpc = "check"
    /\ dpc' = "disable"
    /\ UNCHANGED <<ctx, metrics, env_enabled, th, pr, record_mtx, clock,
                   callsLeft, faultsLeft, metricsLeft, run>>

\* cv.wait(lk, pred): the predicate, evaluated under destroy_mtx.
DestroyCheck ==
    /\ dpc = "check"
    /\ dpc' = IF ctx.in_flight = 0 THEN "disable" ELSE "block"
    /\ UNCHANGED <<ctx, metrics, env_enabled, th, pr, record_mtx, clock,
                   callsLeft, faultsLeft, metricsLeft, run>>

\* cv.wait(lk, pred): the predicate was false, the thread blocks on the cv.
DestroyBlock ==
    /\ dpc = "block"
    /\ dpc' = "waiting"
    /\ UNCHANGED <<ctx, metrics, env_enabled, th, pr, record_mtx, clock,
                   callsLeft, faultsLeft, metricsLeft, run>>

\* A condition variable may wake without a notify.
SpuriousWakeup ==
    /\ dpc = "waiting"
    /\ dpc' = "check"
    /\ UNCHANGED <<ctx, metrics, env_enabled, th, pr, record_mtx, clock,
                   callsLeft, faultsLeft, metricsLeft, run>>

DestroyDisable ==
    /\ dpc = "disable"
    /\ ctx' = [ctx EXCEPT !.mode = "Disabled", !.ts_supported = FALSE]
    /\ dpc' = "metrics"
    /\ UNCHANGED <<metrics, env_enabled, th, pr, record_mtx, clock,
                   callsLeft, faultsLeft, metricsLeft, run>>

DestroyMetrics ==
    /\ dpc = "metrics"
    /\ metrics' = [metrics EXCEPT !.have_metrics = FALSE]
    /\ dpc' = "free"
    /\ UNCHANGED <<ctx, env_enabled, th, pr, record_mtx, clock,
                   callsLeft, faultsLeft, metricsLeft, run>>

\* android_gpu_usage_destroy_timestamp_resources(ctx); delete ctx;
DestroyFree ==
    /\ dpc = "free"
    /\ ctx' = android_gpu_usage_destroy_timestamp_resources(ctx)
    /\ dpc' = "done"
    /\ UNCHANGED <<metrics, env_enabled, th, pr, record_mtx, clock,
                   callsLeft, faultsLeft, metricsLeft, run>>

\* ------------------------------------------------------------ environment
Tick ==
    /\ Alive
    /\ clock < MaxClock
    /\ clock' = clock + ClockStep
    /\ UNCHANGED <<ctx, metrics, env_enabled, th, pr, record_mtx, dpc,
                   callsLeft, faultsLeft, metricsLeft, run>>

Calls ==
    \/ \E t \in Submitters : android_gpu_usage_queue_submit(t)
    \/ \E t \in Submitters : android_gpu_usage_queue_submit2(t)
    \/ \E t \in Submitters : SubmitLocked(t)
    \/ \E t \in Submitters : SubmitPassThrough(t)
    \/ \E t \in Submitters : RecordLock(t)
    \/ \E t \in Submitters : RecordJobs(t)
    \/ \E t \in Submitters : SubmitRecordFailed(t)
    \/ \E t \in Submitters : SubmitInstrumented(t)
    \/ \E t \in Submitters : SubmitFallback(t)
    \/ \E t \in Submitters : SubmitFinalize(t)
    \/ \E t \in Threads : GuardDtor(t)
    \/ \E t \in Threads : GuardNotify(t)
    \/ android_gpu_usage_on_present
    \/ PresentSelect
    \/ PresentPoll
    \/ PresentCommit
    \/ PresentMetrics

Next ==
    \/ Calls
    \/ Tick

Spec == Init /\ [][Next]_vars

\* The same calls with android_gpu_usage_destroy running beside them.
NextLife ==
    \/ Calls
    \/ \E t \in Submitters : android_gpu_usage_get_metrics(t)
    \/ \E t \in Submitters : GetMetricsBody(t)
    \/ DestroyStart
    \/ DestroyCheck
    \/ DestroyBlock
    \/ SpuriousWakeup
    \/ DestroyDisable
    \/ DestroyMetrics
    \/ DestroyFree

\* Two submitting threads.
MaxSerialRace == 6
MaxFaultsRace == 1
InitRace == InitState(MaxCalls, MaxFaultsRace, 0, 2, MaxSerialRace)

\* The clock stands still: what two racing submits do does not wait for it.
SpecRace == InitRace /\ [][Calls]_vars

MaxSerialLife == 4
MaxCallsLife == 2
MaxFaultsLife == 1
InitLife == InitState(MaxCallsLife, MaxFaultsLife, MaxMetricsCalls, 1, MaxSerialLife)

SpecLife == InitLife /\ [][NextLife]_vars

\* One submitting thread and enough presents for the ring of slots to wrap.
MaxCallsReuse == 2
MaxFaultsReuse == 1
MaxSerialReuse == 17
InitReuse == InitState(MaxCallsReuse, MaxFaultsReuse, 0, 1, MaxSerialReuse)

SpecReuse == InitReuse /\ [][Calls]_vars

\* The calls, the clock and get_metrics polled from a second thread.
NextMetrics ==
    \/ Next
    \/ \E t \in Submitters : android_gpu_usage_get_metrics(t)
    \/ \E t \in Submitters : GetMetricsBody(t)

MaxCallsMetrics == 2
MaxFaultsMetrics == 1
MaxSerialMetrics == 4
MaxMetricsCallsPolled == 1
InitPolled == InitState(MaxCallsMetrics, MaxFaultsMetrics, MaxMetricsCallsPolled, 1, MaxSerialMetrics)

SpecMetrics == InitPolled /\ [][NextMetrics]_vars

\* No call is in progress.
AllIdle == \A t \in Threads : th[t].pc = "idle"

\* --------------------------------------------------------------- recovery
\* One submit call in the first frame that may fail, then presents at any
\* rate against a clock that advances in steps shorter than the cooldowns. A
\* call runs to its end before the next one starts.
FineStep == 800
MaxClockRecovery == 3100

FineTick ==
    /\ Alive
    /\ clock < MaxClockRecovery
    /\ clock' = clock + FineStep
    /\ UNCHANGED <<ctx, metrics, env_enabled, th, pr, record_mtx, dpc,
                   callsLeft, faultsLeft, metricsLeft, run>>

FirstFrameSubmit ==
    /\ AllIdle
    /\ ctx.frame_index = 0
    /\ android_gpu_usage_queue_submit("t1")

LaterPresent ==
    /\ AllIdle
    /\ android_gpu_usage_on_present

NextRecovery ==
    \/ FirstFrameSubmit
    \/ SubmitLocked("t1")
    \/ SubmitPassThrough("t1")
    \/ RecordLock("t1")
    \/ RecordJobs("t1")
    \/ SubmitRecordFailed("t1")
    \/ SubmitInstrumented("t1")
    \/ SubmitFallback("t1")
    \/ SubmitFinalize("t1")
    \/ \E t \in Threads : GuardDtor(t)
    \/ \E t \in Threads : GuardNotify(t)
    \/ LaterPresent
    \/ PresentSelect
    \/ PresentPoll
    \/ PresentCommit
    \/ PresentMetrics
    \/ FineTick

MaxCallsRecovery == 1
MaxFaultsRecovery == 1
MaxSerialRecovery == 122
InitRecovery == InitState(MaxCallsRecovery, MaxFaultsRecovery, 0, 1, MaxSerialRecovery)

SpecRecovery == InitRecovery /\ [][NextRecovery]_vars

\* ------------------------------------------------------------ a stuck query
\* The calls one after the other again, nothing failing: instrumented submits
\* in frames 0 and 2 or one ring later in frame MAX_FRAMES, and a device on
\* which the queries of frame 0 never complete while those of every other
\* frame have completed when polled.
StuckSubmit ==
    /\ AllIdle
    /\ ctx.frame_index \in {0, 2, MAX_FRAMES}
    /\ android_gpu_usage_queue_submit("t1")

\* The availability loop taking one available pair for enough.
query_range_status_AnyAvailable(query_count, valid_pairs_mask, avail) ==
    LET pair_count == query_count \div 2 IN
    IF \A i \in 0 .. (pair_count - 1) : i \in valid_pairs_mask => i \notin avail
    THEN "NotReady" ELSE "Ready"

\* The availability loop of android_gpu_usage_query_range_gpu_ms, reached
\* when GetQueryPoolResults returned no error: NotReady when the start or the
\* end of a valid pair is not available.
query_range_status(query_count, valid_pairs_mask, avail) ==
    LET pair_count == query_count \div 2 IN
    IF \E i \in 0 .. (pair_count - 1) : i \in valid_pairs_mask /\ i \notin avail
    THEN "NotReady" ELSE "Ready"

\* android_gpu_usage_query_range_gpu_ms on that device: of the pairs of
\* frame 0 at least one valid pair is unavailable, whatever the others are.
StuckPoll ==
    /\ Alive
    /\ th[Presenter].pc = "p_poll"
    /\ LET pairs == 0 .. (pr.read.q_count \div 2 - 1) IN
       \E avail \in SUBSET pairs :
          /\ IF pr.read.serial = 0
             THEN \E i \in pr.read.valid_mask \cap pairs : i \notin avail
             ELSE avail = pairs
          /\ LET st == query_range_status(pr.read.q_count, pr.read.valid_mask, avail)
             IN pr' = [pr EXCEPT !.st = st,
                                 !.avail = avail,
                                 !.frame_gpu_ms = IF st = "Ready"
                                                  THEN frame_cpu_ms \div 2 ELSE 0]
    /\ th' = [th EXCEPT ![Presenter].pc = "p_commit"]
    /\ UNCHANGED <<ctx, metrics, env_enabled, record_mtx, dpc, clock,
                   callsLeft, faultsLeft, metricsLeft, run>>

NextStuck ==
    \/ StuckSubmit
    \/ SubmitLocked("t1")
    \/ SubmitPassThrough("t1")
    \/ RecordLock("t1")
    \/ RecordJobs("t1")
    \/ SubmitInstrumented("t1")
    \/ SubmitFinalize("t1")
    \/ \E t \in Threads : GuardDtor(t)
    \/ \E t \in Threads : GuardNotify(t)
    \/ LaterPresent
    \/ PresentSelect
    \/ StuckPoll
    \/ PresentCommit
    \/ PresentMetrics
    \/ FineTick

MaxCallsStuck == 2
InitStuck == InitState(MaxCallsStuck, 0, 0, 1, MaxSerialRecovery)

SpecStuck == InitStuck /\ [][NextStuck]_vars

\* ------------------------------------------------- timestamps to busy time
\* android_gpu_usage_query_range_gpu_ms from the raw results on: the decoding
\* of the pairs and the union of their intervals. uint64_t is scaled down to
\* WordBits bits, so that a counter of fewer valid bits wraps within reach;
\* arithmetic is modulo 2^WordBits as the code's is modulo 2^64.
WordBits == 5

RECURSIVE Pow2(_)
Pow2(n) == IF n = 0 THEN 1 ELSE 2 * Pow2(n - 1)

Word == Pow2(WordBits)

\* uint64_t arithmetic
U64(x) == x % Word

\* ctx->ts_mask for the valid bits vb
ts_mask(vb) == IF vb = 0 \/ vb >= WordBits THEN Word - 1 ELSE Pow2(vb) - 1

\* x & mask for a mask of low bits
BitAnd(x, mask) == x % (mask + 1)

has_wrap(vb) == vb > 0 /\ vb < WordBits

\* The pair decoded as if the counter never wrapped.
DecodePair_NoWrap(vb, p) ==
    LET s_m == BitAnd(p[1], ts_mask(vb))
        e_m == BitAnd(p[2], ts_mask(vb))
    IN [s_m |-> s_m, dur |-> IF e_m <= s_m THEN 0 ELSE e_m - s_m]

\* One (start, end) pair of raw ticks to a segment; dur = 0 marks a pair the
\* loop skips.
DecodePair(vb, p) ==
    LET s_m == BitAnd(p[1], ts_mask(vb))
        e_m == BitAnd(p[2], ts_mask(vb))
    IN [s_m |-> s_m,
        dur |-> IF ~has_wrap(vb)
                THEN IF e_m <= s_m THEN 0 ELSE e_m - s_m
                ELSE BitAnd(U64(e_m - s_m), ts_mask(vb))]

Decoded(vb, scratch) == [i \in 1 .. Len(scratch) |-> DecodePair(vb, scratch[i])]

Segs(vb, scratch) == SelectSeq(Decoded(vb, scratch), LAMBDA g : g.dur > 0)

\* The first index (0-based) of the largest gap between sorted starts, as the
\* loop's strict comparison finds it, from index i on.
RECURSIVE MaxGapFrom(_, _, _, _)
MaxGapFrom(starts, i, max_gap, max_i) ==
    IF i + 1 >= Len(starts) THEN [max_gap |-> max_gap, max_i |-> max_i]
    ELSE LET gap == U64(starts[i + 2] - starts[i + 1]) IN
         IF gap > max_gap
         THEN MaxGapFrom(starts, i + 1, gap, i)
         ELSE MaxGapFrom(starts, i + 1, max_gap, max_i)

\* The smallest start taken as the pivot, whatever the gaps.
Pivot_SmallestStart(vb, segs) ==
    SortSeq([i \in 1 .. Len(segs) |-> segs[i].s_m], LAMBDA a, b : a < b)[1]

\* The pivot the starts are unwrapped from.
Pivot(vb, segs) ==
    LET wrap == Pow2(vb)
        starts == SortSeq([i \in 1 .. Len(segs) |-> segs[i].s_m],
                          LAMBDA a, b : a < b)
        n == Len(starts)
        inner == MaxGapFrom(starts, 0, 0, 0)
        last_gap == U64(U64(starts[1] + wrap) - starts[n])
        best == IF last_gap > inner.max_gap
                THEN [max_gap |-> last_gap, max_i |-> n - 1]
                ELSE inner
        span == U64(wrap - best.max_gap)
    IN IF span > U64(wrap * 3) \div 4 THEN starts[1]
       ELSE starts[((best.max_i + 1) % n) + 1]

\* The segments laid out on one axis; e = s marks one the loop drops.
Unwrapped(vb, segs) ==
    IF ~has_wrap(vb) \/ Len(segs) = 1
    THEN [i \in 1 .. Len(segs) |->
            [s |-> segs[i].s_m, e |-> U64(segs[i].s_m + segs[i].dur)]]
    ELSE LET pivot == Pivot(vb, segs) IN
         [i \in 1 .. Len(segs) |->
            LET delta == BitAnd(U64(segs[i].s_m - pivot), ts_mask(vb))
                s_u == U64(pivot + delta)
            IN [s |-> s_u, e |-> U64(s_u + segs[i].dur)]]

Intervals(vb, segs) ==
    SortSeq(SelectSeq(Unwrapped(vb, segs), LAMBDA v : v.e > v.s),
            LAMBDA a, b : IF a.s # b.s THEN a.s < b.s ELSE a.e < b.e)

\* A merge loop that adds up every interval on its own.
RECURSIVE MergeFrom_NoMerge(_, _, _, _, _)
MergeFrom_NoMerge(iv, k, cur_s, cur_e, busy_ticks) ==
    IF k > Len(iv) THEN U64(busy_ticks + (cur_e - cur_s))
    ELSE MergeFrom_NoMerge(iv, k + 1, iv[k].s, iv[k].e,
                           U64(busy_ticks + (cur_e - cur_s)))

\* The merge loop from interval k on.
RECURSIVE MergeFrom(_, _, _, _, _)
MergeFrom(iv, k, cur_s, cur_e, busy_ticks) ==
    IF k > Len(iv) THEN U64(busy_ticks + (cur_e - cur_s))
    ELSE IF iv[k].s <= cur_e
    THEN MergeFrom(iv, k + 1, cur_s, Max(cur_e, iv[k].e), busy_ticks)
    ELSE MergeFrom(iv, k + 1, iv[k].s, iv[k].e, U64(busy_ticks + (cur_e - cur_s)))

\* Busy ticks of the raw pairs (one tick is taken as one millisecond); when
\* the union is empty the range from the first start to the last end.
BusyTicks(vb, scratch) ==
    LET segs == Segs(vb, scratch)
        iv == IF segs = <<>> THEN <<>> ELSE Intervals(vb, segs)
    IN IF iv = <<>> THEN 0
       ELSE LET busy_ticks == MergeFrom(iv, 2, iv[1].s, iv[1].e, 0)
                min_start_u == iv[1].s
                max_end_u == CHOOSE e \in {iv[i].e : i \in 1 .. Len(iv)} :
                                \A i \in 1 .. Len(iv) : iv[i].e <= e
            IN IF busy_ticks > 0 THEN busy_ticks
               ELSE IF max_end_u > min_start_u THEN max_end_u - min_start_u
               ELSE 0

\* Inputs: a counter of 3 valid bits with every tick and two raw values
\* carrying bits above the valid ones, and a counter as wide as the word.
ValidBitsInputs == {3, WordBits}
TickInputs(vb) == IF has_wrap(vb) THEN (0 .. 7) \cup {9, 30} ELSE {0, 5, 10, 15, 20, 30}
MaxPairsIn(vb) == IF has_wrap(vb) THEN 2 ELSE 3

ScratchInputs(vb) ==
    UNION {[1 .. n -> TickInputs(vb) \X TickInputs(vb)] : n \in 1 .. MaxPairsIn(vb)}

\* on_present about to poll a slot whose pairs are all valid and available.
InitDecode ==
    /\ env_enabled = TRUE
    /\ \E vb \in ValidBitsInputs :
          /\ ctx = [GuardEnter(InitCtx(TRUE)) EXCEPT !.ts_valid_bits = vb,
                                                     !.query_pool = TRUE]
          /\ \E sc \in ScratchInputs(vb) :
                pr = [now |-> ClockStep,
                      read |-> [NoRead EXCEPT !.have = TRUE, !.q_count = 2 * Len(sc)],
                      st |-> "NotReady",
                      frame_gpu_ms |-> 0,
                      scratch |-> sc,
                      decoded |-> <<>>]
    /\ metrics = InitMetrics
    /\ th = [t \in Threads |-> IF t = Presenter
                                THEN [NoLocals EXCEPT !.pc = "p_poll"]
                                ELSE NoLocals]
    /\ record_mtx = "free"
    /\ dpc = "none"
    /\ clock = ClockStep
    /\ callsLeft = 0
    /\ faultsLeft = 0
    /\ metricsLeft = 0
    /\ run = [threads |-> 1, presents |-> 1]

\* android_gpu_usage_query_range_gpu_ms on the raw results.
QueryRange ==
    /\ th[Presenter].pc = "p_poll"
    /\ pr' = [pr EXCEPT !.st = "Ready",
                        !.decoded = Decoded(ctx.ts_valid_bits, pr.scratch),
                        !.frame_gpu_ms = BusyTicks(ctx.ts_valid_bits, pr.scratch)]
    /\ th' = [th EXCEPT ![Presenter].pc = "p_commit"]
    /\ UNCHANGED <<ctx, metrics, env_enabled, record_mtx, dpc, clock,
                   callsLeft, faultsLeft, metricsLeft, run>>

SpecDecode == InitDecode /\ [][QueryRange]_vars

\* ------------------------------------------------------ the metrics window
\* The metrics block as a function of what the blocks before it hand over:
\* the time since the last present, the poll's status, the busy time and the
\* CPU time of the frame read.
WindowDts == {250, 500}
WindowGpuMs == {0, 2, 6, 20}
WindowCpuMs == {0, 10}

\* on_present up to the metrics block, by its outputs.
PresentOutcome ==
    /\ Alive
    /\ env_enabled
    /\ th[Presenter].pc = "idle"
    /\ ctx.frame_index < run.presents
    /\ \E dt \in WindowDts, st \in ReadStatuses \ {"DeviceLost"},
          g \in WindowGpuMs, c \in WindowCpuMs :
          /\ (st # "Ready" => g = 0)
          /\ clock' = clock + dt
          /\ pr' = [now |-> clock + dt,
                    read |-> [NoRead EXCEPT !.have = TRUE, !.cpu_ms = c],
                    st |-> st,
                    frame_gpu_ms |-> g,
                    avail |-> {}]
    /\ ctx' = [GuardEnter(ctx) EXCEPT !.frame_index = @ + 1]
    /\ th' = [th EXCEPT ![Presenter].pc = "p_metrics"]
    /\ UNCHANGED <<metrics, env_enabled, record_mtx, dpc,
                   callsLeft, faultsLeft, metricsLeft, run>>

NextWindow ==
    \/ PresentOutcome
    \/ PresentMetrics
    \/ \E t \in Threads : GuardDtor(t)
    \/ \E t \in Threads : GuardNotify(t)

MaxWindowPresents == 4
InitWindow == InitState(0, 0, 0, 1, MaxWindowPresents)

SpecWindow == InitWindow /\ [][NextWindow]_vars

\* ------------------------------------------------------------ the scenario
\* One application thread: per frame one instrumentable submit, then the
\* present, at a steady frame interval; get_metrics after the last frame.
\* Nothing fails and every poll finds its queries complete.
ScenarioFrames == 20

\* Frame intervals (ms); 19 intervals of 27 ms are the first to span 500 ms.
FrameIntervals == {16, 26, 27, 100, 250, 300, 500, 700}

InitScenario ==
    /\ env_enabled = TRUE
    /\ ctx = InitCtx(TRUE)
    /\ metrics = InitMetrics
    /\ th = [t \in Threads |-> NoLocals]
    /\ pr = NoPresent
    /\ record_mtx = "free"
    /\ dpc = "none"
    /\ clock = ClockStep
    /\ callsLeft = ScenarioFrames
    /\ faultsLeft = 0
    /\ metricsLeft = 1
    /\ \E d \in FrameIntervals :
          run = [threads |-> 1, presents |-> ScenarioFrames, frame_ms |-> d]

\* The time of frame k's submit and present.
FrameTime(k) == ClockStep + k * run.frame_ms

\* The frame interval passes between a present and the next frame's submit.
FrameTick ==
    /\ AllIdle
    /\ ctx.frame_index < ScenarioFrames
    /\ clock < FrameTime(ctx.frame_index)
    /\ clock' = FrameTime(ctx.frame_index)
    /\ UNCHANGED <<ctx, metrics, env_enabled, th, pr, record_mtx, dpc,
                   callsLeft, faultsLeft, metricsLeft, run>>

\* The frame's submit: its batch is instrumentable, so on a sampled frame the
\* locked block reserves and arms the slot.
FrameSubmit ==
    /\ AllIdle
    /\ clock = FrameTime(ctx.frame_index)
    /\ callsLeft = ScenarioFrames - ctx.frame_index
    /\ android_gpu_usage_queue_submit("t1")

FrameSubmitLocked ==
    /\ SubmitLocked("t1")
    /\ th'["t1"].pc = "record"

FramePresent ==
    /\ AllIdle
    /\ callsLeft = ScenarioFrames - ctx.frame_index - 1
    /\ android_gpu_usage_on_present

FrameGetMetrics ==
    /\ AllIdle
    /\ ctx.frame_index = ScenarioFrames
    /\ android_gpu_usage_get_metrics("t1")

NextScenario ==
    \/ FrameTick
    \/ FrameSubmit
    \/ FrameSubmitLocked
    \/ SubmitPassThrough("t1")
    \/ RecordLock("t1")
    \/ RecordJobs("t1")
    \/ SubmitInstrumented("t1")
    \/ SubmitFinalize("t1")
    \/ \E t \in Threads : GuardDtor(t)
    \/ \E t \in Threads : GuardNotify(t)
    \/ FramePresent
    \/ PresentSelect
    \/ PresentPoll
    \/ PresentCommit
    \/ PresentMetrics
    \/ FrameGetMetrics
    \/ GetMetricsBody("t1")

SpecScenario == InitScenario /\ [][NextScenario]_vars

\* ----------------------------------------------------------------- creation
\* The entry points of the capability table (AndroidVkGpuDispatch).
SubmitEntries == {"QueueSubmit", "QueueSubmit2", "QueueSubmit2KHR"}

DispEntries ==
    SubmitEntries \cup
    {"CreateQueryPool", "DestroyQueryPool", "GetQueryPoolResults",
     "CreateCommandPool", "DestroyCommandPool", "ResetCommandPool",
     "AllocateCommandBuffers", "BeginCommandBuffer", "EndCommandBuffer",
     "CmdWriteTimestamp", "CmdResetQueryPool", "CmdPipelineBarrier"}

\* Tables handed to create, as the set of entries that are not null: any
\* set of submit entry points with at most one other entry missing.
DispInputs ==
    { sub \cup ((DispEntries \ SubmitEntries) \ miss) :
        sub \in SUBSET SubmitEntries,
        miss \in {{}} \cup { {e} : e \in DispEntries \ SubmitEntries } }

\* android_gpu_usage_create ignoring the table.
create_AnyTable(timestamp_period_ns, timestamp_valid_bits, disp, env) ==
    [c |-> [InitCtx(env /\ timestamp_period_ns > 0)
               EXCEPT !.ts_valid_bits = timestamp_valid_bits],
     disp |-> disp]

\* android_gpu_usage_create: the new context and the table it keeps.
android_gpu_usage_create(timestamp_period_ns, timestamp_valid_bits, disp, env) ==
    LET ts_period_ns == IF timestamp_period_ns > 0 THEN timestamp_period_ns ELSE 0
        ctx_disp == IF "QueueSubmit2" \notin disp /\ "QueueSubmit2KHR" \in disp
                    THEN disp \cup {"QueueSubmit2"} ELSE disp
        has_submit ==
            \/ "QueueSubmit" \in disp
            \/ "QueueSubmit2" \in disp
            \/ "QueueSubmit2KHR" \in disp
        dispatch_ok ==
            /\ has_submit
            /\ "CreateQueryPool" \in disp
            /\ "DestroyQueryPool" \in disp
            /\ "GetQueryPoolResults" \in disp
            /\ "CreateCommandPool" \in disp
            /\ "DestroyCommandPool" \in disp
            /\ "ResetCommandPool" \in disp
            /\ "AllocateCommandBuffers" \in disp
            /\ "BeginCommandBuffer" \in disp
            /\ "EndCommandBuffer" \in disp
            /\ "CmdWriteTimestamp" \in disp
            /\ "CmdResetQueryPool" \in disp
        supported == IF ~env THEN FALSE ELSE dispatch_ok /\ ts_period_ns > 0
    IN [c |-> [InitCtx(supported) EXCEPT !.ts_valid_bits = timestamp_valid_bits],
        disp |-> ctx_disp]

\* Before the call there is no context: ctx holds the value-initialized
\* AndroidVkGpuContext and run the arguments of the call to come.
InitCreate ==
    /\ env_enabled \in BOOLEAN
    /\ ctx = [InitCtx(FALSE) EXCEPT !.ts_valid_bits = 0]
    /\ metrics = InitMetrics
    /\ th = [t \in Threads |-> NoLocals]
    /\ pr = NoPresent
    /\ record_mtx = "free"
    /\ dpc = "none"
    /\ clock = ClockStep
    /\ callsLeft = 0
    /\ faultsLeft = 0
    /\ metricsLeft = 0
    /\ \E d \in DispInputs, period \in {0, 1}, vb \in {0, 36} :
          run = [threads |-> 0, presents |-> 0, created |-> FALSE,
                 timestamp_period_ns |-> period, timestamp_valid_bits |-> vb,
                 disp |-> d, ctx_disp |-> {}]

Create ==
    /\ ~run.created
    /\ LET r == android_gpu_usage_create(run.timestamp_period_ns,
                     run.timestamp_valid_bits, run.disp, env_enabled)
       IN /\ ctx' = r.c
          /\ run' = [run EXCEPT !.created = TRUE, !.ctx_disp = r.disp]
    /\ UNCHANGED <<metrics, env_enabled, th, pr, record_mtx, dpc, clock,
                   callsLeft, faultsLeft, metricsLeft>>

SpecCreate == InitCreate /\ [][Create]_vars

\* ------------------------------------------------------- the lock skeleton
\* The entry points reduced to their lock operations, in the order of the
\* scopes of their lock guards: "lock" is ctx->lock, the state lock. Each
\* sequence is one path through the function; which path a call takes depends
\* on data and is left open.
Acq(l) == <<"acquire", l>>
Rel(l) == <<"release", l>>

\* get_metrics taking the state lock inside the metrics lock.
GetMetricsLocks_StateInside ==
    {<<Acq("metrics_mtx"), Acq("lock"), Rel("lock"), Rel("metrics_mtx")>>}

\* android_gpu_usage_get_metrics: an early return, or the metrics lock.
GetMetricsLocks ==
    {<<>>, <<Acq("metrics_mtx"), Rel("metrics_mtx")>>}

\* android_gpu_usage_queue_submit_impl behind the fast path: the pass-through
\* exits, the record failure (the native submit inside g3), the augmented
\* submit with and without the fallback, and the path through the handlers
\* of an exception thrown in the first locked block.
SubmitLocks ==
    LET A == <<Acq("lock"), Rel("lock")>>
        R == <<Acq("record_mtx"), Rel("record_mtx")>>
        N == <<"native", "submit">>
    IN {<<N>>,
        A \o <<N>>,
        A \o R \o <<Acq("lock"), N, Rel("lock")>>,
        A \o R \o <<N>> \o A,
        A \o R \o <<N, N>> \o A,
        A \o A \o <<N>>}

\* android_gpu_usage_on_present: an early return; the return from block (A);
\* no slot selected; a slot selected (cpu_ms_for_serial takes the metrics
\* lock inside block (A)) and polled outside the locks.
PresentLocks ==
    LET M == <<Acq("metrics_mtx"), Rel("metrics_mtx")>>
        A == <<Acq("lock"), Rel("lock")>>
    IN {<<>>,
        M \o A,
        M \o A \o A \o M,
        M \o <<Acq("lock")>> \o M \o <<Rel("lock"), <<"native", "poll">>>> \o A \o M}

\* A call enters: the submit entry points and get_metrics on any thread,
\* on_present on the presentation thread.
LockEnter(t) ==
    /\ th[t].pc = "idle"
    /\ callsLeft > 0
    /\ callsLeft' = callsLeft - 1
    /\ \E prog \in (IF t = Presenter THEN PresentLocks ELSE SubmitLocks)
                     \cup GetMetricsLocks :
          th' = [th EXCEPT ![t] = [NoLocals EXCEPT !.pc = "locks", !.prog = prog]]
    /\ UNCHANGED <<ctx, metrics, env_enabled, pr, record_mtx, dpc, clock,
                   faultsLeft, metricsLeft, run>>

\* The constructor of a lock guard: std::mutex is not recursive, the thread
\* waits for as long as any thread, itself included, holds the mutex.
LockAcquire(t) ==
    /\ th[t].pc = "locks"
    /\ th[t].prog # <<>>
    /\ Head(th[t].prog)[1] = "acquire"
    /\ LET l == Head(th[t].prog)[2] IN
          /\ \A u \in Threads : \A k \in 1 .. Len(th[u].holds) : th[u].holds[k] # l
          /\ th' = [th EXCEPT ![t].prog = Tail(@), ![t].holds = Append(@, l)]
          /\ record_mtx' = IF l = "record_mtx" THEN t ELSE record_mtx
    /\ UNCHANGED <<ctx, metrics, env_enabled, pr, dpc, clock,
                   callsLeft, faultsLeft, metricsLeft, run>>

\* The destructor of a lock guard, at the end of its scope.
LockRelease(t) ==
    /\ th[t].pc = "locks"
    /\ th[t].prog # <<>>
    /\ Head(th[t].prog)[1] = "release"
    /\ LET l == Head(th[t].prog)[2] IN
          /\ th' = [th EXCEPT ![t].prog = Tail(@),
                               ![t].holds = SelectSeq(@, LAMBDA x : x # l)]
          /\ record_mtx' = IF l = "record_mtx" THEN "free" ELSE record_mtx
    /\ UNCHANGED <<ctx, metrics, env_enabled, pr, dpc, clock,
                   callsLeft, faultsLeft, metricsLeft, run>>

\* A native call: the native submit or the query-result poll.
LockNative(t) ==
    /\ th[t].pc = "locks"
    /\ th[t].prog # <<>>
    /\ Head(th[t].prog)[1] = "native"
    /\ th' = [th EXCEPT ![t].prog = Tail(@),
                         ![t].calls = Append(@, Head(th[t].prog))]
    /\ UNCHANGED <<ctx, metrics, env_enabled, pr, record_mtx, dpc, clock,
                   callsLeft, faultsLeft, metricsLeft, run>>

LockReturn(t) ==
    /\ th[t].pc = "locks"
    /\ th[t].prog = <<>>
    /\ th' = [th EXCEPT ![t] = NoLocals]
    /\ UNCHANGED <<ctx, metrics, env_enabled, pr, record_mtx, dpc, clock,
                   callsLeft, faultsLeft, metricsLeft, run>>

NextLocks ==
    \/ \E t \in Threads : LockEnter(t)
    \/ \E t \in Threads : LockAcquire(t)
    \/ \E t \in Threads : LockRelease(t)
    \/ \E t \in Threads : LockNative(t)
    \/ \E t \in Threads : LockReturn(t)

MaxCallsLocks == 4
InitLocks == InitState(MaxCallsLocks, 0, 0, 2, 0)

SpecLocks == InitLocks /\ [][NextLocks]_vars

\* ------------------------------------------------------ the augmented list
\* The first locked block of a submit call as a function of its submissions:
\* the call is in an even frame whose slot holds `used` reserved queries,
\* with the resources created; up to three submissions of up to three
\* command buffers each.
BufferInputs == {<<>>, <<"a">>, <<"a", "b">>, <<"c", "a", "b">>}
WrapInputs ==
    {<<x>> : x \in BufferInputs}
    \cup {<<x, y>> : x \in BufferInputs, y \in BufferInputs}
    \cup {<<x, y, z>> : x \in BufferInputs, y \in BufferInputs, z \in BufferInputs}
UsedInputs == {0, 2 * kMaxPairsPerSampledFrame - 4, 2 * kMaxPairsPerSampledFrame - 2}

InitWrap ==
    /\ env_enabled = TRUE
    /\ \E used \in UsedInputs :
          LET c == android_gpu_usage_init_timestamp_resources(InitCtx(TRUE), 0, "ok").c
          IN ctx = [c EXCEPT !.in_flight = 1,
                             !.frames[0].frame_serial = 0,
                             !.frames[0].query_used = used]
    /\ \E s \in WrapInputs :
          th = [t \in Threads |->
                  IF t = "t1" THEN [NoLocals EXCEPT !.pc = "lock", !.submits = s]
                  ELSE NoLocals]
    /\ metrics = InitMetrics
    /\ pr = NoPresent
    /\ record_mtx = "free"
    /\ dpc = "none"
    /\ clock = ClockStep
    /\ callsLeft = 0
    /\ faultsLeft = 0
    /\ metricsLeft = 0
    /\ run = [threads |-> 1, presents |-> 0]

\* The first locked block applied to the call's submissions.
BuildWrapped ==
    /\ th["t1"].pc = "lock"
    /\ LET r == SubmitLockedBlock(ctx, th["t1"], clock, "ok") IN
          /\ ctx' = r.c
          /\ th' = [th EXCEPT !["t1"] = IF r.l.armed_slot
                                        THEN [r.l EXCEPT !.pc = "record"]
                                        ELSE [th["t1"] EXCEPT !.pc = "pass",
                                                              !.lock_pass = TRUE]]
    /\ UNCHANGED <<metrics, env_enabled, pr, record_mtx, dpc, clock,
                   callsLeft, faultsLeft, metricsLeft, run>>

SpecWrap == InitWrap /\ [][BuildWrapped]_vars

\* ==================================================================== claims
\* The native submits a call has made so far, as <<list, result>>.
InstFailed(t) ==
    /\ Len(th[t].calls) >= 1
    /\ th[t].calls[1][1] = "inst"
    /\ th[t].calls[1][2] # "VK_SUCCESS"

FellBack(t) ==
    /\ Len(th[t].calls) = 2
    /\ th[t].calls[2][1] = "orig"
    /\ th[t].ret = th[t].calls[2][2]

\* C1 as stated: whenever the native submit of the augmented list returns any
\* failure, the wrapper then submits the original list and returns the result
\* of that second submit.
C1_FallbackOnAnyFailure ==
    \A t \in Submitters :
        (th[t].pc = "ret" /\ InstFailed(t)) => FellBack(t)

\* C1 amended: whenever the native submit of the augmented list returns a
\* failure other than VK_ERROR_DEVICE_LOST, the wrapper then submits the
\* original list and returns the result of that second submit; on
\* VK_ERROR_DEVICE_LOST it returns that result after the one submit.
C1_FallbackUnlessDeviceLost ==
    \A t \in Submitters :
        (th[t].pc = "ret" /\ InstFailed(t)) =>
            IF th[t].calls[1][2] = "VK_ERROR_DEVICE_LOST"
            THEN Len(th[t].calls) = 1 /\ th[t].ret = "VK_ERROR_DEVICE_LOST"
            ELSE FellBack(t)

C1_Witness ==
    \E t \in Submitters :
        /\ th[t].pc = "ret"
        /\ th[t].calls = << <<"inst", "VK_ERROR_OUT_OF_DEVICE_MEMORY">>,
                            <<"orig", "VK_SUCCESS">> >>
        /\ th[t].ret = "VK_SUCCESS"

\* The step in which thread t handles the result of its augmented submit
\* (block 650-672), that submit having failed.
FailureHandled(t) ==
    /\ th[t].pc = "finalize"
    /\ th'[t].pc = "ret"
    /\ InstFailed(t)

RollbackSafe(t) ==
    LET fr == ctx.frames[th[t].armed_slot_idx] IN
    /\ ~ctx.destroying
    /\ fr.frame_serial = th[t].serial_snapshot
    /\ fr.query_used = th[t].saved_query_used + th[t].reserved_delta_queries

\* C2 as stated: for any submit call whose native submit fails after pairs
\* were reserved, the slot's query_used after the call equals its query_used
\* before the call's reservation, whatever other submit calls reserved in the
\* same slot meanwhile.
C2_RollbackAlways ==
    [][\A t \in Submitters :
          FailureHandled(t) =>
              ctx'.frames[th[t].armed_slot_idx].query_used = th[t].saved_query_used]_vars

\* C2 amended: for any submit call whose native submit fails after pairs were
\* reserved, the slot's query_used after the call equals its query_used before
\* the call's reservation, provided that when the failure is handled the slot
\* still carries the call's serial, no other call has reserved in the slot
\* after this one (query_used is still the saved count plus the call's own
\* reservation) and no destroy is in progress.
C2_RollbackWhenLast ==
    [][\A t \in Submitters :
          (FailureHandled(t) /\ RollbackSafe(t)) =>
              ctx'.frames[th[t].armed_slot_idx].query_used = th[t].saved_query_used]_vars

\* A failed call rolled back to the count an earlier, still running call of the
\* other thread had reserved up to.
C2_Witness ==
    \E t, u \in Submitters :
        /\ t # u
        /\ th[t].pc = "ret" /\ InstFailed(t)
        /\ th[t].saved_query_used = 2
        /\ th[t].reserved_delta_queries >= 2
        /\ th[u].armed_slot
        /\ th[u].armed_slot_idx = th[t].armed_slot_idx
        /\ ctx.frames[th[t].armed_slot_idx].frame_serial = th[t].serial_snapshot
        /\ ctx.frames[th[t].armed_slot_idx].query_used = 2

\* C3 as stated: when destroy has destroyed the query pool and the command
\* pools and deleted the context, no entry-point call is in flight (in_flight
\* is zero), whatever the interleaving with submit, present and get_metrics.
C3_FreedOnlyWhenIdle ==
    dpc = "done" => ctx.in_flight = 0

\* C4 as stated (the wake-up is never lost): while destroy is blocked on the
\* condition variable with in_flight already zero, the notification of the call
\* that took the counter to zero is still to come.
C4_WakeupNotLost ==
    (dpc = "waiting" /\ ctx.in_flight = 0) =>
        \E t \in Threads : th[t].pc = "notify"

\* C5 as stated: every slot that holds reserved or valid queries has an even
\* frame_serial (pairs being reserved only while the frame serial is even).
C5_OccupiedSlotsEven ==
    \A i \in Slots :
        (ctx.frames[i].query_used > 0 \/ ctx.frames[i].valid_pairs_mask # {}) =>
            /\ ctx.frames[i].frame_serial # UINT64_MAX
            /\ ctx.frames[i].frame_serial % 2 = 0

\* What a pass-through call must leave alone: every slot's occupancy, the
\* mode, the cooldown and the read cursor.
Occupancy(c) ==
    <<[i \in Slots |-> <<c.frames[i].frame_serial, c.frames[i].query_used,
                         c.frames[i].has_queries, c.frames[i].valid_pairs_mask,
                         c.frames[i].in_submit>>],
      c.mode, c.suspend_until, c.read_serial>>

BackendOff(c) ==
    ~c.ts_supported \/ c.mode # "Active" \/ c.frame_index % 2 = 1

StepOf(t) == th'[t] # th[t]

\* C6: a submit call that finds, on entry, the backend disabled (ts_supported
\* false or mode not Active), a destroy in progress or the frame serial odd,
\* or finds the backend disabled or the serial odd once it holds the state
\* lock, is a pure pass-through: it calls the native submit exactly once with
\* the original list, returns its result, and none of its steps changes a
\* slot's occupancy, the mode, the cooldown or the read cursor.
C6_PassThrough ==
    [][\A t \in Submitters :
          /\ (th[t].pc = "idle" /\ th'[t].pc \in {"pass", "lock"}
                /\ (BackendOff(ctx) \/ ctx.destroying))
                => (th'[t].pc = "pass" /\ th'[t].fast_pass
                    /\ Occupancy(ctx') = Occupancy(ctx))
          /\ (th[t].pc = "lock" /\ StepOf(t) /\ BackendOff(ctx))
                => (th'[t].pc = "pass" /\ Occupancy(ctx') = Occupancy(ctx))
          /\ (th[t].pc = "pass" /\ StepOf(t))
                => /\ th'[t].pc = "ret"
                   /\ Len(th'[t].calls) = 1
                   /\ th'[t].calls[1][1] = "orig"
                   /\ th'[t].ret = th'[t].calls[1][2]
                   /\ Occupancy(ctx') = Occupancy(ctx)
          /\ (th[t].pc = "ret" /\ Len(th[t].calls) = 1
                /\ th[t].calls[1][1] = "orig" /\ ~th[t].armed_slot
                /\ th[t].reserved_delta_queries = 0 /\ StepOf(t))
                => Occupancy(ctx') = Occupancy(ctx)]_vars

\* A pass-through call has returned in Suspended mode while a slot holds
\* unread queries.
C6_Witness ==
    \E t \in Submitters :
        /\ th[t].pc = "ret"
        /\ th[t].fast_pass
        /\ th[t].calls = << <<"orig", "VK_SUCCESS">> >>
        /\ ctx.mode = "Suspended"
        /\ \E i \in Slots : ctx.frames[i].valid_pairs_mask # {}

\* A slot holds unread, successfully submitted queries reserved fewer than
\* FRAME_LAG frames ago.
HoldsYoungQueries(i) ==
    /\ ctx.frames[i].valid_pairs_mask # {}
    /\ \E e \in ctx.frames[i].valid_at : ctx.frame_index < e[2] + FRAME_LAG

\* C7: a slot that holds unread, successfully submitted queries younger than
\* FRAME_LAG frames is not reassigned: no step gives it another serial or
\* resets its valid pairs (it keeps its serial, or is consumed by the
\* collector).
C7_NoEarlyReassign ==
    [][\A i \in Slots :
          HoldsYoungQueries(i) =>
              \/ /\ ctx'.frames[i].frame_serial = ctx.frames[i].frame_serial
                 /\ ctx.frames[i].valid_pairs_mask \subseteq ctx'.frames[i].valid_pairs_mask
              \/ ctx'.frames[i].frame_serial = UINT64_MAX]_vars

\* begin_frame has run for a second submit of the frame on a slot that holds
\* the valid pair of the first, and the call reserved after it.
C7_Witness ==
    \E t \in Submitters :
        /\ th[t].pc = "record"
        /\ th[t].saved_has_queries
        /\ th[t].saved_query_used = 2
        /\ HoldsYoungQueries(th[t].armed_slot_idx)
        /\ ctx.frames[th[t].armed_slot_idx].frame_serial = th[t].serial_snapshot
        /\ ctx.frames[th[t].armed_slot_idx].query_used >= 4

\* C8 as stated: whenever on_present polls a slot with serial s, the current
\* frame serial is at least s + FRAME_LAG, in every mode.
C8_LagInEveryMode ==
    th[Presenter].pc = "p_poll" => ctx.frame_index >= pr.read.serial + FRAME_LAG

\* C8 amended: whenever on_present polls a slot with serial s that it selected
\* in Active mode, the current frame serial is at least s + FRAME_LAG (the
\* Suspended-mode probe selects the oldest pending slot whatever its age).
C8_LagInActiveMode ==
    (th[Presenter].pc = "p_poll" /\ ~pr.read.probe) =>
        ctx.frame_index >= pr.read.serial + FRAME_LAG

C8_Witness ==
    /\ th[Presenter].pc = "p_poll"
    /\ ~pr.read.probe
    /\ pr.read.serial = 2
    /\ ctx.frame_index = pr.read.serial + FRAME_LAG

\* C9 as stated: whenever the collector polls or consumes a slot with serial
\* s, no other slot holds unread, successfully submitted queries with a
\* smaller serial.
C9_SerialOrder ==
    (th[Presenter].pc \in {"p_poll", "p_commit"} /\ pr.read.have) =>
        \A i \in Slots :
            (ctx.frames[i].valid_pairs_mask # {}
               /\ ctx.frames[i].frame_serial # UINT64_MAX)
            => ctx.frames[i].frame_serial >= pr.read.serial

\* C10 as stated: a DEVICE_LOST result from a native submit of an instrumented
\* call or from the query-result poll sets the mode to Disabled; once the mode
\* is Disabled no step moves it back and no query pair is reserved again.
C10_DisabledTerminal ==
    [][/\ \A t \in Submitters :
            (th[t].pc = "finalize" /\ th'[t].pc = "ret"
               /\ \E k \in 1 .. Len(th[t].calls) :
                     th[t].calls[k][2] = "VK_ERROR_DEVICE_LOST")
            => ctx'.mode = "Disabled"
       /\ (th[Presenter].pc = "p_commit" /\ th'[Presenter].pc = "p_metrics"
             /\ pr.read.have /\ pr.st = "DeviceLost")
            => ctx'.mode = "Disabled"
       /\ ctx.mode = "Disabled" =>
            /\ ctx'.mode = "Disabled"
            /\ \A i \in Slots :
                  ctx'.frames[i].query_used <= ctx.frames[i].query_used]_vars

\* C11 as stated: the step that moves the backend to Disabled on device loss
\* leaves no query pool and no slot command pool behind.
C11_FreedOnDeviceLoss ==
    [][(ctx.mode # "Disabled" /\ ctx'.mode = "Disabled") =>
          /\ ~ctx'.query_pool
          /\ \A i \in Slots : ~ctx'.frames[i].cmd_pool]_vars

\* C11, amended: the step that moves the backend to Disabled on device loss
\* frees nothing (the query pool and every slot's command pool and command
\* buffers stay as they were), and while the mode is Disabled no step creates,
\* recreates or frees a timestamp resource.
C11_KeptOnDeviceLoss ==
    [][ctx'.mode = "Disabled" =>
          /\ ctx'.query_pool = ctx.query_pool
          /\ \A i \in Slots :
                /\ ctx'.frames[i].cmd_pool = ctx.frames[i].cmd_pool
                /\ ctx'.frames[i].timestamp_cmds = ctx.frames[i].timestamp_cmds]_vars

C11_Witness ==
    /\ ctx.mode = "Disabled"
    /\ ctx.query_pool
    /\ \A i \in Slots : ctx.frames[i].cmd_pool
    /\ ctx.frame_index >= 4
C12_NoDataAfterDeviceLoss ==
    [][\A t \in Submitters :
          (th[t].pc = "gm" /\ th'[t].pc = "ret" /\ ctx.mode = "Disabled")
          => th'[t].ret = "false"]_vars
\* C17: get_metrics exposes nothing before the first window has completed.
\* have_metrics becomes true only in the metrics block of a present that
\* closes a window of at least 500 ms holding at least one sample with a GPU
\* time and a CPU time; until then get_metrics returns false and leaves
\* *out_gpu_ms and *out_usage as they were.
C17_NothingBeforeFirstWindow ==
    [][/\ (~metrics.have_metrics /\ metrics'.have_metrics) =>
            /\ th[Presenter].pc = "p_metrics"
            /\ metrics.window_start # 0
            /\ pr.now - metrics.window_start >= WINDOW
            /\ \/ metrics.acc_gpu_samples > 0
               \/ pr.st = "Ready" /\ pr.frame_gpu_ms > 0 /\ pr.read.cpu_ms > 0
       /\ \A t \in Submitters :
            (th[t].pc = "gm" /\ th'[t].pc = "ret" /\ ~metrics.have_metrics) =>
                /\ th'[t].ret = "false"
                /\ th'[t].out_gpu_ms = Untouched
                /\ th'[t].out_usage = Untouched]_vars

\* get_metrics returned false while a sample sat in a window still open.
C17_Witness ==
    /\ env_enabled
    /\ ~metrics.have_metrics
    /\ metrics.acc_gpu_samples > 0
    /\ \E t \in Submitters :
          /\ th[t].pc = "ret"
          /\ th[t].ret = "false"
          /\ th[t].out_usage = Untouched
\* The window the metrics block is about to close: the present is at least
\* 500 ms after the window's start.
WindowCloses ==
    /\ th[Presenter].pc = "p_metrics" /\ th'[Presenter].pc = "ret"
    /\ metrics.window_start # 0
    /\ pr.now - metrics.window_start >= WINDOW

SampleNow == pr.st = "Ready" /\ pr.frame_gpu_ms > 0 /\ pr.read.cpu_ms > 0

\* C14: when a window closes holding no usable sample, smooth_usage,
\* smooth_gpu_ms, last_usage, last_gpu_ms and have_metrics keep their values;
\* the accumulators are reset and the window start becomes the present's time.
C14_EmptyWindowKeepsValues ==
    [][(WindowCloses /\ metrics.acc_gpu_samples = 0 /\ ~SampleNow) =>
          /\ metrics'.smooth_usage = metrics.smooth_usage
          /\ metrics'.smooth_gpu_ms = metrics.smooth_gpu_ms
          /\ metrics'.last_usage = metrics.last_usage
          /\ metrics'.last_gpu_ms = metrics.last_gpu_ms
          /\ metrics'.have_metrics = metrics.have_metrics
          /\ metrics'.acc_cpu_ms_sampled = 0
          /\ metrics'.acc_frames_sampled = 0
          /\ metrics'.acc_gpu_ms = 0
          /\ metrics'.acc_gpu_samples = 0
          /\ metrics'.window_start = pr.now]_vars

\* An empty window closed after a window had produced 20 %.
C14_Witness ==
    /\ th[Presenter].pc = "ret"
    /\ ctx.frame_index = 3
    /\ pr.st = "NotReady"
    /\ metrics.window_start = pr.now
    /\ metrics.have_metrics
    /\ metrics.last_usage = <<20, 1>>
    /\ metrics.last_gpu_ms = <<2, 1>>
\* The sums the closing window holds once the present's own sample is added.
SumGpuMs == metrics.acc_gpu_ms + (IF SampleNow THEN pr.frame_gpu_ms ELSE 0)
SumGpuSamples == metrics.acc_gpu_samples + (IF SampleNow THEN 1 ELSE 0)
SumCpuMs == metrics.acc_cpu_ms_sampled + (IF SampleNow THEN pr.read.cpu_ms ELSE 0)
SumFrames == metrics.acc_frames_sampled + (IF SampleNow THEN 1 ELSE 0)

\* The window's own usage as numerator and denominator, capped at 100 %.
NewUsageNum ==
    IF SumGpuMs * SumFrames > SumGpuSamples * SumCpuMs THEN 100
    ELSE 100 * SumGpuMs * SumFrames
NewUsageDen ==
    IF SumGpuMs * SumFrames > SumGpuSamples * SumCpuMs THEN 1
    ELSE SumGpuSamples * SumCpuMs

\* C16: the first window that produces a value emits it unchanged; every
\* later producing window emits half the previous output plus half the new
\* value (usage and GPU time alike), so windows of 20 % then 60 % emit 20 %
\* then 40 %.
C16_Smoothing ==
    [][(WindowCloses /\ SumGpuSamples > 0) =>
          LET u == metrics'.last_usage
              g == metrics'.last_gpu_ms
              pu == metrics.last_usage
              pg == metrics.last_gpu_ms
          IN /\ metrics'.have_metrics
             /\ IF ~metrics.have_metrics
                THEN /\ u[1] * NewUsageDen = NewUsageNum * u[2]
                     /\ g[1] * SumGpuSamples = SumGpuMs * g[2]
                ELSE /\ 2 * u[1] * pu[2] * NewUsageDen
                          = u[2] * (pu[1] * NewUsageDen + NewUsageNum * pu[2])
                     /\ 2 * g[1] * pg[2] * SumGpuSamples
                          = g[2] * (pg[1] * SumGpuSamples + SumGpuMs * pg[2])
             /\ (metrics.have_metrics /\ pu = <<20, 1>>
                   /\ NewUsageNum = 60 * NewUsageDen) => u = <<40, 1>>]_vars

\* The second producing window: 60 % after 20 % has emitted 40 %.
C16_Witness ==
    /\ th[Presenter].pc = "ret"
    /\ ctx.frame_index = 3
    /\ pr.st = "Ready" /\ pr.frame_gpu_ms = 6 /\ pr.read.cpu_ms = 10
    /\ metrics.window_start = pr.now
    /\ metrics.have_metrics
    /\ metrics.last_usage = <<40, 1>>
    /\ metrics.last_gpu_ms = <<4, 1>>
\* get_metrics has returned after the scenario's last frame.
ScenarioDone ==
    /\ ctx.frame_index = ScenarioFrames
    /\ th["t1"].pc = "ret"
    /\ th["t1"].ret \in {"true", "false"}

UsageInRange(u) == u # Untouched /\ 0 <= u[1] /\ u[1] <= 100 * u[2]

\* C15 as stated: after 20 frames of one instrumentable submit and one
\* present each, get_metrics returns true and a usage within [0, 100].
C15_MetricsAfterTwentyFrames ==
    ScenarioDone =>
        th["t1"].ret = "true" /\ UsageInRange(th["t1"].out_usage)

\* C15, amended: the same when the 20 presents, at a steady frame interval,
\* span at least the 500 ms of a metrics window.
C15_MetricsAfterTwentyFramesOverWindow ==
    (ScenarioDone /\ (ScenarioFrames - 1) * run.frame_ms >= WINDOW) =>
        th["t1"].ret = "true" /\ UsageInRange(th["t1"].out_usage)

C15_Witness ==
    /\ ScenarioDone
    /\ run.frame_ms = 27
    /\ th["t1"].ret = "true"
    /\ th["t1"].out_usage = <<50, 1>>
\* The poll's decoding of the raw pairs has run.
Polled == th[Presenter].pc = "p_commit" /\ pr.st = "Ready"

\* C18: with fewer valid bits than the word has, a pair whose end tick is
\* numerically below its start tick decodes to the duration
\* (end - start) mod 2^b, a value within 0 .. 2^b - 1.
C18_WrappedDuration ==
    (Polled /\ has_wrap(ctx.ts_valid_bits)) =>
        \A i \in 1 .. Len(pr.scratch) :
            pr.scratch[i][2] < pr.scratch[i][1] =>
                /\ pr.decoded[i].dur
                     = (pr.scratch[i][2] - pr.scratch[i][1]) % Pow2(ctx.ts_valid_bits)
                /\ pr.decoded[i].dur \in 0 .. (Pow2(ctx.ts_valid_bits) - 1)

\* Start 6, end 1 on a counter of 3 bits: 3 ticks.
C18_Witness ==
    /\ Polled
    /\ ctx.ts_valid_bits = 3
    /\ pr.scratch = << <<6, 1>> >>
    /\ pr.decoded[1].dur = 3
    /\ pr.frame_gpu_ms = 3
\* The ticks the intervals of the raw pairs cover: on the line when the
\* counter is as wide as the word, on the circle of 2^b ticks otherwise.
Covered(vb, scratch) ==
    LET m == ts_mask(vb) + 1 IN
    {x \in 0 .. (m - 1) :
        \E i \in 1 .. Len(scratch) :
            LET s_m == scratch[i][1] % m
                e_m == scratch[i][2] % m
            IN IF has_wrap(vb) THEN (x - s_m) % m < (e_m - s_m) % m
               ELSE s_m <= x /\ x < e_m}

Reordered(scratch) ==
    {[i \in 1 .. Len(scratch) |-> scratch[f[i]]] :
        f \in {g \in [1 .. Len(scratch) -> 1 .. Len(scratch)] :
                  \A i, j \in 1 .. Len(scratch) : g[i] = g[j] => i = j}}

OrderInvariant ==
    \A sc \in Reordered(pr.scratch) :
        BusyTicks(ctx.ts_valid_bits, sc) = pr.frame_gpu_ms

\* C19 as stated: the busy time of the pairs does not depend on their order
\* and is the measure of the union of their intervals.
C19_UnionMeasure ==
    Polled =>
        /\ OrderInvariant
        /\ pr.frame_gpu_ms = Cardinality(Covered(ctx.ts_valid_bits, pr.scratch))
\* All intervals lie within one half of the counter's range.
WithinHalfRange ==
    LET m == Pow2(ctx.ts_valid_bits) IN
    \E o \in 0 .. (m - 1) :
        \A i \in 1 .. Len(pr.scratch) :
            pr.decoded[i].dur > 0 =>
                ((pr.decoded[i].s_m - o) % m) + pr.decoded[i].dur <= m \div 2

\* C19, amended: the busy time does not depend on the order of the pairs; it
\* is the measure of the union of their intervals when the counter is as wide
\* as the word (no wrap) or when the intervals all lie within one half of the
\* counter's range; [0,10) with [5,15) gives 15, [0,10) with [20,30) gives 20.
C19_UnionMeasureWithinHalfRange ==
    Polled =>
        /\ OrderInvariant
        /\ (~has_wrap(ctx.ts_valid_bits) \/ WithinHalfRange) =>
              pr.frame_gpu_ms = Cardinality(Covered(ctx.ts_valid_bits, pr.scratch))
        /\ (~has_wrap(ctx.ts_valid_bits)
              /\ pr.scratch \in Reordered(<< <<0, 10>>, <<5, 15>> >>)) =>
              pr.frame_gpu_ms = 15
        /\ (~has_wrap(ctx.ts_valid_bits)
              /\ pr.scratch \in Reordered(<< <<0, 10>>, <<20, 30>> >>)) =>
              pr.frame_gpu_ms = 20

\* [5,15) then [0,10), given in that order, on a counter that does not wrap.
C19_Witness ==
    /\ Polled
    /\ ~has_wrap(ctx.ts_valid_bits)
    /\ pr.scratch = << <<5, 15>>, <<0, 10>> >>
    /\ pr.frame_gpu_ms = 15
\* C13 as stated, in the form a finite run refutes: the backend returns to
\* Active once the cooldown has elapsed whatever the rate of presents, so
\* while it is Suspended a present that polled nothing, and so saw nothing
\* fail, does not move the end of the cooldown further away.
C13_CooldownElapses ==
    [][(/\ ctx.mode = "Suspended"
        /\ th[Presenter].pc = "p_commit" /\ th'[Presenter].pc = "p_metrics"
        /\ ~pr.read.have)
       => ctx'.suspend_until <= ctx.suspend_until]_vars

\* ---------------------------------------------------------------- C21
\* The locked block of a submit ran the lazy initialization for thread t.
InitAttempted(t) ==
    /\ th[t].pc = "lock" /\ th'[t].pc # "lock"
    /\ ctx.ts_supported /\ ctx.mode = "Active" /\ ~ctx.query_pool
    /\ ctx.frame_index % 2 = 0
    /\ ctx'.queue_family_index \in 0 .. (qf_count - 1)

NoTimestamps(qfi) == QueueFamilyProperties(qfi).timestampValidBits = 0

NoGraphics(qfi) ==
    /\ QueueFamilyProperties(qfi).timestampValidBits # 0
    /\ ~QueueFamilyProperties(qfi).graphics

Capable(qfi) ==
    /\ QueueFamilyProperties(qfi).timestampValidBits # 0
    /\ QueueFamilyProperties(qfi).graphics

\* The submit the initialization was skipped for passes through untouched and
\* leaves the backend as it was, but for the queue family it remembers.
SkippedOnly(t) ==
    /\ ctx' = [ctx EXCEPT !.queue_family_index = ctx'.queue_family_index]
    /\ th'[t].pc = "pass"

\* A submit on a capable family after a skip creates the resources (when the
\* driver creates them) and is instrumented when it carries command buffers.
LaterInit(t) ==
    (/\ InitAttempted(t)
     /\ NoGraphics(ctx.queue_family_index)
     /\ Capable(ctx'.queue_family_index)
     /\ faultsLeft' = faultsLeft)
    => /\ ctx'.query_pool /\ ctx'.ts_supported /\ ctx'.mode = "Active"
       /\ \A i \in Slots : ctx'.frames[i].cmd_pool
       /\ (th'[t].pc = "record" \/ th'[t].pc = "pass")
       /\ (th'[t].pc = "record") = has_cmds(th'[t].submits)

\* C21 (as stated): a submit on a queue family without timestamps
\* (timestampValidBits = 0) or without the graphics bit only skips the lazy
\* initialization: the backend stays enabled, and a later submit on a capable
\* family initializes the resources and is instrumented.
C21_SkipOnIncapableFamily ==
    [][\A t \in Submitters :
         /\ (InitAttempted(t) /\ ~Capable(ctx'.queue_family_index))
              => SkippedOnly(t)
         /\ LaterInit(t)]_vars

\* C21 (amended): only a family that has timestamps but no graphics bit is
\* skipped with the backend left enabled, and a later submit on a capable
\* family initializes the resources and is instrumented; a family with
\* timestampValidBits = 0 turns the backend unsupported for good.
C21_SkipOnNonGraphicsFamily ==
    [][\A t \in Submitters :
         /\ (InitAttempted(t) /\ NoGraphics(ctx'.queue_family_index))
              => SkippedOnly(t)
         /\ (InitAttempted(t) /\ NoTimestamps(ctx'.queue_family_index))
              => (~ctx'.ts_supported /\ ~ctx'.query_pool /\ th'[t].pc = "pass")
         /\ LaterInit(t)]_vars

\* A submit was skipped on the non-graphics family and the backend is still
\* enabled with nothing created.
C21_Witness ==
    /\ ctx.ts_supported /\ ctx.mode = "Active" /\ ~ctx.query_pool
    /\ NoGraphics(ctx.queue_family_index)
    /\ \E t \in Submitters : th[t].pc = "pass"

\* ---------------------------------------------------------------- C22
\* The entry points the claim lists, by what is missing from the table.
MissingEntries == DispEntries \ run.disp

\* The entry points whose absence makes create report the backend
\* unsupported: every one but the submit variants and the pipeline barrier.
NeededEntries == (DispEntries \ SubmitEntries) \ {"CmdPipelineBarrier"}

\* C22 (as stated): create reports the backend unsupported whenever any entry
\* point of the capability table is missing: either submit variant, query-pool
\* create/destroy/read, command-pool create/destroy/reset, command-buffer
\* allocate/begin/end, write-timestamp, reset-query-pool or pipeline-barrier.
C22_UnsupportedOnAnyMissing ==
    (run.created /\ MissingEntries # {}) => ~ctx.ts_supported

\* C22 (amended): create reports the backend unsupported whenever no submit
\* variant at all is present or any of query-pool create/destroy/read,
\* command-pool create/destroy/reset, command-buffer allocate/begin/end,
\* write-timestamp or reset-query-pool is missing; a table that lacks only
\* some of the submit variants or the pipeline barrier is reported supported
\* when the environment enables the backend and the tick period is positive.
C22_UnsupportedOnNeededMissing ==
    run.created =>
      /\ (MissingEntries \cap NeededEntries # {}) => ~ctx.ts_supported
      /\ (SubmitEntries \subseteq MissingEntries) => ~ctx.ts_supported
      /\ (/\ MissingEntries \cap NeededEntries = {}
          /\ ~(SubmitEntries \subseteq MissingEntries)
          /\ env_enabled /\ run.timestamp_period_ns > 0) => ctx.ts_supported

\* create was handed an enabled environment, a positive period and a table
\* whose only missing entry is one of the needed ones.
C22_Witness ==
    /\ run.created /\ env_enabled /\ run.timestamp_period_ns > 0
    /\ MissingEntries = {"ResetCommandPool"}
    /\ ~ctx.ts_supported

\* ---------------------------------------------------------------- C23
\* This step reset the command pool of slot i with a recording in it.
PoolReset(i) ==
    /\ ctx.frames[i].cmd_pool /\ ctx'.frames[i].cmd_pool
    /\ ctx.frames[i].cb_recorded /\ ~ctx'.frames[i].cb_recorded

\* C23: a slot's command pool is never reset (by begin_frame, by the
\* record-failure path or by the submit-failure path of any thread) while
\* another thread is between reserving pairs in that slot and finishing its
\* native submit, that is while the slot's in_submit counter stays non-zero.
C23_NoResetWhileInSubmit ==
    [][\A i \in Slots : PoolReset(i) => ctx'.frames[i].in_submit = 0]_vars

\* ---------------------------------------------------------------- C24
\* The native submit thread t made last was the augmented list, it held the
\* begin and end buffers of pair p, and it returned success.
AcceptedPair(t, p) ==
    /\ Len(th[t].calls) > 0
    /\ th[t].calls[Len(th[t].calls)] = <<"inst", "VK_SUCCESS">>
    /\ \E k \in 1 .. Len(th[t].submits) :
          LET w == WrappedSubmits(th[t].submits, th[t].inst, th[t].jobs)[k] IN
          /\ Len(w) >= 2
          /\ w[1] = <<"begin", p>>
          /\ w[Len(w)] = <<"end", p>>

\* C24: a reserved pair is counted into valid_pairs_mask only after the native
\* submit of the augmented list containing it returned success: a bit of a
\* slot's mask is set only by the finalization of a thread whose augmented
\* list held that pair's begin and end buffers and was accepted.
C24_ValidOnlyAfterSuccess ==
    [][\A i \in Slots :
         \A p \in ctx'.frames[i].valid_pairs_mask \ ctx.frames[i].valid_pairs_mask :
            \E t \in Submitters :
               /\ th[t].pc = "finalize" /\ th'[t].pc = "ret"
               /\ th[t].armed_slot_idx = i
               /\ p \in th[t].new_valid_mask
               /\ AcceptedPair(t, p)]_vars

\* A pair is valid in a slot while another thread, whose augmented list was
\* refused, has fallen back to the original list with success.
C24_Witness ==
    \E t \in Submitters, i \in Slots :
       /\ ctx.frames[i].valid_pairs_mask # {}
       /\ th[t].pc = "ret" /\ th[t].ret = "VK_SUCCESS"
       /\ th[t].armed_slot_idx = i
       /\ Len(th[t].calls) = 2
       /\ th[t].calls[1][1] = "inst" /\ th[t].calls[1][2] # "VK_SUCCESS"
       /\ th[t].new_valid_mask \cap ctx.frames[i].valid_pairs_mask = {}

\* ---------------------------------------------------------------- C25
\* C25: whenever the state lock is free, every slot satisfies
\* has_queries = (valid_pairs_mask # 0); a failing submit's rollback never
\* clears has_queries of a slot in which a concurrent submit has already marked
\* pairs valid.
C25_HasQueriesIffValidPairs ==
    \A i \in Slots :
        ctx.frames[i].has_queries = (ctx.frames[i].valid_pairs_mask # {})

\* ---------------------------------------------------------------- C26
\* C26: pairs are marked valid only in the slot occupancy they were reserved
\* in: each set bit p of a slot's valid_pairs_mask satisfies
\* 2 * (p + 1) <= query_used, and the slot's frame_serial is the serial (not
\* the sentinel) under which pair p was reserved, even when the collector
\* consumes the slot or presents advance between reservation and finalization.
C26_ValidInOwnOccupancy ==
    \A i \in Slots :
        \A p \in ctx.frames[i].valid_pairs_mask :
            /\ 2 * (p + 1) <= ctx.frames[i].query_used
            /\ ctx.frames[i].frame_serial # UINT64_MAX
            /\ <<p, ctx.frames[i].frame_serial>> \in ctx.frames[i].valid_at

\* ---------------------------------------------------------------- C27
\* Block (C) runs after the poll of the selected slot returned Error, the
\* backend not being Disabled.
ErrorCommitted ==
    /\ th[Presenter].pc = "p_commit" /\ th'[Presenter].pc = "p_metrics"
    /\ pr.read.have /\ pr.st = "Error"
    /\ ctx.mode # "Disabled"

SuspendedFor(cooldown) ==
    /\ ctx'.mode = "Suspended"
    /\ ctx'.suspend_until >= clock + cooldown

ProbeWithLaterPending ==
    /\ th[Presenter].pc = "p_select" /\ th'[Presenter].pc = "p_poll"
    /\ ctx.mode = "Suspended"
    /\ \E i \in Slots : Pending(ctx.frames[i]) /\ ctx.frames[i].frame_serial > 0

\* C28, in the form a finite run refutes: a stuck query never permanently
\* stalls collection. On a device where the queries of frame 0 never complete
\* and nothing else fails, the backend is suspended only by the NotReady
\* streak; the read cursor has then moved past the slot of frame 0, so the
\* collector, when it polls again with a slot of a later frame pending, polls
\* a later frame's slot and not the stuck one.
C28_StuckSlotPassed ==
    [][ProbeWithLaterPending => pr'.read.serial > 0]_vars

\* ---------------------------------------------------------------- C29
\* Block (C) of a present that had no slot to poll.
CommitWithoutRead ==
    /\ th[Presenter].pc = "p_commit" /\ th'[Presenter].pc = "p_metrics"
    /\ ~pr.read.have

\* C29: a present that had no candidate slot to read (nothing pending, odd
\* frame, lag not reached, or Suspended without a probe) does not increase
\* notready_streak, and so neither suspends the backend nor extends its
\* cooldown for NotReady.
C29_StreakCountsReadsOnly ==
    [][CommitWithoutRead =>
          /\ ctx'.notready_streak <= ctx.notready_streak
          /\ ctx'.mode = ctx.mode
          /\ ctx'.suspend_until = ctx.suspend_until]_vars

\* ---------------------------------------------------------------- C30
\* A valid pair of the slot that was read is not available in the results.
PartialResults(p) ==
    \E i \in p.read.valid_mask : 2 * (i + 1) <= p.read.q_count /\ i \notin p.avail

\* The poll of the selected slot.
PollStep ==
    th[Presenter].pc = "p_poll" /\ th'[Presenter].pc = "p_commit"

\* Block (C), then block (D), after a poll that found partial results.
PartialCommit ==
    /\ th[Presenter].pc = "p_commit" /\ th'[Presenter].pc = "p_metrics"
    /\ pr.read.have /\ PartialResults(pr)

PartialMetrics ==
    /\ th[Presenter].pc = "p_metrics" /\ th'[Presenter].pc = "ret"
    /\ pr.read.have /\ PartialResults(pr)

\* Nothing is computed or accumulated, and no slot's occupancy changes.
NothingFromPartial ==
    /\ (PollStep /\ PartialResults(pr')) =>
          (pr'.st = "NotReady" /\ pr'.frame_gpu_ms = 0)
    /\ PartialCommit =>
          /\ pr'.st = "NotReady" /\ pr'.frame_gpu_ms = 0
          /\ ctx'.frames = ctx.frames
    /\ PartialMetrics =>
          /\ metrics'.acc_gpu_ms <= metrics.acc_gpu_ms
          /\ metrics'.acc_gpu_samples <= metrics.acc_gpu_samples
          /\ metrics'.acc_frames_sampled <= metrics.acc_frames_sampled

\* This NotReady present completes a streak of kNotReadyLimit in Active mode.
StreakCompletes ==
    ctx.mode = "Active" /\ ctx.notready_streak + 1 >= kNotReadyLimit

\* C30 (as stated): if any successfully submitted pair of the polled slot is
\* unavailable, the read is NotReady: no GPU time is computed or accumulated
\* from partial results, and the slot's occupancy and the read cursor are left
\* unchanged.
C30_PartialLeavesCursor ==
    [][/\ NothingFromPartial
       /\ PartialCommit => ctx'.read_serial = ctx.read_serial]_vars

\* C30 (amended): if any successfully submitted pair of the polled slot is
\* unavailable, the read is NotReady: no GPU time is computed or accumulated
\* from partial results and the slot's occupancy is left unchanged; the read
\* cursor is left unchanged too, except when this present completes a streak
\* of kNotReadyLimit in Active mode: the backend is then suspended and the
\* cursor moves to the current frame index.
C30_PartialLeavesCursorBelowLimit ==
    [][/\ NothingFromPartial
       /\ (PartialCommit /\ ~StreakCompletes) =>
             (ctx'.read_serial = ctx.read_serial /\ ctx'.mode = ctx.mode)
       /\ (PartialCommit /\ StreakCompletes) =>
             (ctx'.read_serial = ctx.frame_index /\ ctx'.mode = "Suspended")]_vars

\* A slot with two valid pairs was polled with one pair available and the
\* other not; the slot is still pending.
C30_Witness ==
    /\ th[Presenter].pc = "p_metrics"
    /\ pr.read.have /\ pr.st = "NotReady"
    /\ pr.read.valid_mask = {0, 1}
    /\ Cardinality(pr.avail) = 1
    /\ ctx.frames[pr.read.slot_idx].valid_pairs_mask = {0, 1}
    /\ Pending(ctx.frames[pr.read.slot_idx])

\* ---------------------------------------------------------------- C31
\* Thread t runs the block after a failed recording and the native submit of
\* the original list that follows it.
RecordFailureHandled(t) ==
    th[t].pc = "record_failed" /\ th'[t].pc = "ret"

\* What the record-failure path does whatever else is going on: it resets the
\* slot's command pool, marks no pair valid, and submits the original list
\* once, returning its result.
RecordFailureFallsBack(t) ==
    LET i == th[t].armed_slot_idx IN
    /\ ~ctx'.frames[i].cb_recorded
    /\ ctx'.frames[i].valid_pairs_mask = ctx.frames[i].valid_pairs_mask
    /\ Len(th'[t].calls) = 1
    /\ th'[t].calls[1][1] = "orig"
    /\ th'[t].ret = th'[t].calls[1][2]

StaleSlotFound(t) ==
    LET i == ctx.frame_index % MAX_FRAMES IN
    /\ th[t].pc = "lock" /\ th'[t].pc = "pass"
    /\ ctx.mode = "Active"
    /\ ctx.frames[i].has_queries
    /\ ctx.frames[i].frame_serial # UINT64_MAX
    /\ ctx.frame_index >= ctx.frames[i].frame_serial + MAX_FRAMES
    /\ ctx'.mode = "Suspended"
    /\ ctx'.suspend_until = clock + kCooldownStaleSlot

\* C32: when begin_frame finds that the slot of the current serial still holds
\* unread queries and its age is at least the ring size, the slot is
\* force-dropped: its occupancy is cleared, so that it can be reassigned.
C32_StaleSlotDropped ==
    [][\A t \in Submitters :
         StaleSlotFound(t) =>
            LET i == ctx.frame_index % MAX_FRAMES IN
            /\ ~ctx'.frames[i].has_queries
            /\ ctx'.frames[i].valid_pairs_mask = {}
            /\ ctx'.frames[i].frame_serial = UINT64_MAX]_vars

\* ---------------------------------------------------------------- C33
\* C33: instrumentation is paused outside Active mode: in no step taken while
\* the mode is Suspended or Disabled is a query pair reserved, a slot assigned
\* a new serial or a timestamp resource created, whatever the mode was at the
\* submit's lock-free fast-path check.
C33_PausedOutsideActive ==
    [][ctx.mode # "Active" =>
          /\ ctx'.query_pool => ctx.query_pool
          /\ \A i \in Slots :
                /\ ctx'.frames[i].query_used <= ctx.frames[i].query_used
                /\ ctx'.frames[i].frame_serial \in
                      {ctx.frames[i].frame_serial, UINT64_MAX}
                /\ ctx'.frames[i].cmd_pool => ctx.frames[i].cmd_pool
                /\ ctx'.frames[i].timestamp_cmds <= ctx.frames[i].timestamp_cmds]_vars

\* The mode changed between a submit's lock-free check and its acquisition of
\* the state lock: the call passed should_sample, which requires Active, and
\* is about to run its locked block with the backend Suspended by another
\* call, the frame being even and the resources created.
C33_Witness ==
    \E t \in Submitters :
       /\ th[t].pc = "lock"
       /\ ~th[t].fast_pass
       /\ ctx.mode = "Suspended"
       /\ ctx.ts_supported
       /\ ctx.query_pool
       /\ ctx.frame_index % 2 = 0
       /\ \A i \in Slots : ~ctx.frames[i].has_queries /\ ctx.frames[i].in_submit = 0

\* ---------------------------------------------------------------- C34
\* Thread t's native submit executes in this step.
NativeSubmitRuns(t) ==
    Len(th'[t].calls) = Len(th[t].calls) + 1

\* The query-result poll executes in this step.
QueryPollRuns ==
    th[Presenter].pc = "p_poll" /\ th'[Presenter].pc = "p_commit"

\* C34: lock discipline. The state lock is never held while the native submit
\* or the query-result poll executes: no step in which one of them runs is
\* also a critical section of ctx->lock updating the context. The record lock
\* is held only while timestamp command buffers are recorded and never across
\* the native submit, and at most one thread records at any time.
C34_LockDiscipline ==
    [][/\ \A t \in Submitters :
             NativeSubmitRuns(t) => ctx' = ctx /\ record_mtx # t
       /\ QueryPollRuns => ctx' = ctx
       /\ \A t \in Submitters : record_mtx = t <=> th[t].pc = "recording"
       /\ Cardinality({t \in Submitters : th[t].pc = "recording"}) <= 1]_vars

\* ---------------------------------------------------------------- C35
\* Thread t waits for a mutex that thread u holds.
WaitsFor(t, u) ==
    /\ th[t].pc = "locks"
    /\ th[t].prog # <<>>
    /\ Head(th[t].prog)[1] = "acquire"
    /\ \E k \in 1 .. Len(th[u].holds) : th[u].holds[k] = Head(th[t].prog)[2]

\* A cycle of waiting threads: none of them can ever go on.
Deadlocked ==
    \E t \in Threads :
       \/ WaitsFor(t, t)
       \/ \E u \in Threads :
             /\ WaitsFor(t, u)
             /\ \/ WaitsFor(u, t)
                \/ \E v \in Threads : WaitsFor(u, v) /\ WaitsFor(v, t)

\* C35: deadlock freedom. No interleaving of concurrent submit, submit2,
\* on_present and get_metrics calls reaches a cycle of threads waiting for the
\* state lock, the record lock and the metrics lock; whenever a thread holds
\* two of these locks it took the state lock first and the metrics lock
\* inside it.
C35_NoDeadlock ==
    /\ ~Deadlocked
    /\ \A t \in Threads :
          Len(th[t].holds) > 1 => th[t].holds = <<"lock", "metrics_mtx">>

\* on_present holds the metrics lock inside the state lock while one submit
\* waits for the state lock and a get_metrics call waits for the metrics lock.
C35_Witness ==
    /\ th[Presenter].holds = <<"lock", "metrics_mtx">>
    /\ \E t, u \in Submitters :
          /\ t # u
          /\ WaitsFor(t, Presenter) /\ Head(th[t].prog) = Acq("lock")
          /\ WaitsFor(u, Presenter) /\ Head(th[u].prog) = Acq("metrics_mtx")

\* ---------------------------------------------------------------- C36
\* Thread t is inside a call that observed destroying = false on entry and
\* has uses of the query pool, the command pools or the slot array ahead of
\* it: the locked blocks of a submit, the recording, the selection, the poll
\* and the commit of a present.
UsesResources(t) ==
    th[t].pc \in {"lock", "record", "recording", "record_failed", "submit",
                  "fallback", "finalize", "p_select", "p_poll", "p_commit"}

\* C36: a call that observed destroying = false on entry finishes every use
\* of the query pool, the command pools and the slot array before destroy
\* frees them: from the moment destroy's wait has returned, through the
\* freeing of the resources and the deletion of the context, no such call is
\* still at one of those uses.
C36_UsesEndBeforeFree ==
    dpc \in {"disable", "metrics", "free", "done"} =>
        \A t \in Threads : ~UsesResources(t)

\* destroy has set the flag and is blocked in its wait while a call that
\* entered before is at the query-result poll or at its recording.
C36_Witness ==
    /\ ctx.destroying
    /\ dpc = "waiting"
    /\ ctx.in_flight > 0
    /\ \E t \in Threads : th[t].pc \in {"p_poll", "recording"}

\* ---------------------------------------------------------------- C37
\* The native submits of thread t's call that returned VK_SUCCESS.
Successes(calls) ==
    {k \in 1 .. Len(calls) : calls[k][2] = "VK_SUCCESS"}

PlanOf(t) ==
    LET fr == ctx.frames[ctx.frame_index % MAX_FRAMES] IN
    plan_instrumentation(th[t].submits, fr.query_used, fr.query_capacity,
                         calc_pairs_left(fr.query_used, fr.query_capacity))

\* C38: in the augmented list the number of submissions is unchanged; each
\* instrumented submission consists of the begin timestamp buffer, then all
\* of the application's command buffers in their original order, then the end
\* timestamp buffer, both of the pair reserved for it; every other submission
\* is passed with exactly its original command buffers in the original order.
C38_AugmentedListShape ==
    [][(th["t1"].pc = "lock" /\ th'["t1"].pc = "record") =>
          LET submits == th["t1"].submits
              inst    == th'["t1"].inst
              jobs    == th'["t1"].jobs
              w == FlatSubmits(submits, PlanOf("t1"), inst, jobs)
          IN /\ Len(w) = Len(submits)
             /\ Len(inst) = Len(submits)
             /\ Len(jobs) = Cardinality({i \in 1 .. Len(submits) : inst[i]})
             /\ \A i \in 1 .. Len(submits) :
                   IF inst[i]
                   THEN \E j \in 1 .. Len(jobs) :
                           /\ w[i] = <<<<"begin", jobs[j].pair_index>>>> \o submits[i]
                                        \o <<<<"end", jobs[j].pair_index>>>>
                           /\ \A i2 \in 1 .. Len(submits) :
                                 (i2 # i /\ inst[i2]) => w[i2][1] # w[i][1]
                   ELSE w[i] = submits[i]]_vars

\* A call of three submissions, the first and the last instrumented around
\* several command buffers and the middle one, without command buffers, not.
C38_Witness ==
    /\ th["t1"].pc = "record"
    /\ Len(th["t1"].submits) = 3
    /\ th["t1"].inst = <<TRUE, FALSE, TRUE>>
    /\ Len(th["t1"].submits[1]) = 3
    /\ Len(th["t1"].submits[3]) = 2
    /\ Len(th["t1"].jobs) = 2

\* ---------------------------------------------------------------- C39
\* C39: per-frame pair budget. In every reachable state each slot's
\* query_used is even and at most 2 * min(16, query_capacity / 2); the two
\* query indices of every pair a submit call has reserved lie inside the
\* slot's own range [query_start, query_start + query_capacity), and its
\* begin and end command buffers are among the pre-allocated ones.
C39_PairBudget ==
    /\ \A i \in Slots :
          LET fr == ctx.frames[i] IN
          /\ fr.query_used % 2 = 0
          /\ fr.query_used
                <= 2 * Min(kMaxPairsPerSampledFrame, fr.query_capacity \div 2)
    /\ \A t \in Submitters :
          th[t].armed_slot =>
             LET i  == th[t].armed_slot_idx
                 fr == ctx.frames[i]
             IN \A k \in 1 .. Len(th[t].jobs) :
                   LET q == query_start(i) + th[t].jobs[k].q0 IN
                   /\ query_start(i) <= q
                   /\ q + 1 < query_start(i) + fr.query_capacity
                   /\ 2 * th[t].jobs[k].pair_index + 1 < fr.timestamp_cmds
                   /\ th[t].jobs[k].pair_index < kMaxPairsPerSampledFrame

\* The budget cut a plan short: the slot is full at 2 * 16 queries after a
\* call reserved the last pair for its first submission and none for a later
\* submission that has command buffers.
C39_Witness ==
    /\ th["t1"].pc = "record"
    /\ ctx.frames[0].query_used = 2 * kMaxPairsPerSampledFrame
    /\ Len(th["t1"].submits) >= 2
    /\ th["t1"].inst[1] /\ ~th["t1"].inst[2]
    /\ Len(th["t1"].submits[2]) > 0

\* ---------------------------------------------------------------- C40
\* The true timestamp behind the counter reading x when the measurements were
\* taken within one wrap period from o on.
TrueTick(o, x) ==
    LET m == Pow2(ctx.ts_valid_bits) IN o + ((x - o) % m)

\* The true extents of all measured intervals lie in the window of len ticks
\* that starts at o, wherever the counter wraps inside it.
InWindow(o, len) ==
    \A i \in 1 .. Len(pr.scratch) :
        /\ TrueTick(o, pr.scratch[i][1]) < TrueTick(o, pr.scratch[i][2])
        /\ TrueTick(o, pr.scratch[i][2]) <= o + len

\* The measure of the union of the intervals on the true timestamps.
TrueUnion(o) ==
    Cardinality({x \in o .. (o + Pow2(ctx.ts_valid_bits)) :
                    \E i \in 1 .. Len(pr.scratch) :
                        /\ TrueTick(o, pr.scratch[i][1]) <= x
                        /\ x < TrueTick(o, pr.scratch[i][2])})

\* The busy time is the union on the true timestamps for every window of at
\* most len ticks that holds the intervals.
UnionExactWithin(len) ==
    (Polled /\ has_wrap(ctx.ts_valid_bits)) =>
        \A o \in 0 .. (Pow2(ctx.ts_valid_bits) - 1) :
            InWindow(o, len) => pr.frame_gpu_ms = TrueUnion(o)

\* C40 (as stated): for a valid-bit width b below that of the word and
\* measured intervals whose true extents all lie within a window shorter than
\* the wrap period 2^b, the busy-time union computed after unwrapping equals
\* the union computed on the true timestamps, wherever the counter wrap falls
\* inside the window.
C40_WrapSafeUnion ==
    UnionExactWithin(Pow2(ctx.ts_valid_bits) - 1)

\* C40 (amended): the same for intervals whose true extents all lie within a
\* window no longer than half the wrap period.
C40_WrapSafeUnionWithinHalfPeriod ==
    UnionExactWithin(Pow2(ctx.ts_valid_bits) \div 2)

\* Two overlapping intervals on a counter of 3 bits, [6,9) and [7,10) in true
\* ticks, read as (6,1) and (7,2) with the wrap inside both: 4 ticks.
C40_Witness ==
    /\ Polled
    /\ ctx.ts_valid_bits = 3
    /\ pr.scratch = << <<6, 1>>, <<7, 2>> >>
    /\ InWindow(6, 4)
    /\ TrueUnion(6) = 4
    /\ pr.frame_gpu_ms = 4

====
